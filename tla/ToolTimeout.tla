---------------------------- MODULE ToolTimeout ----------------------------
(***************************************************************************)
(* One tool call through N layers of the timeout middleware                *)
(* (src/middleware/timeout/timeout.go), layer 1 outermost.  A layer reads  *)
(* nothing that another call writes, so one call stands for all of them.   *)
(* Context 0 is the caller's; the context of a layer that wraps is a child *)
(* of the one the layer was given.  package context is not under src/: a   *)
(* context keeps its error, its deadline and its timer, and the end of a   *)
(* context reaches its child in a step of its own, parent first.           *)
(***************************************************************************)
EXTENDS Integers

CONSTANTS
    N,                \* depth of the stack
    Durations,        \* values New may be given
    DefaultTimeout,   \* timeout.DefaultTimeout
    CallerDeadlines,  \* deadlines the caller's context may carry
    MaxEnterTime,     \* bound: the clock while the layers are entered
    MaxTime           \* bound: the clock

ASSUME DepthAssumption == N \in Nat
ASSUME DurationsAssumption == Durations \subseteq Int
ASSUME DefaultTimeoutAssumption == DefaultTimeout \in Nat \ {0}
ASSUME ClockAssumption == CallerDeadlines \subseteq Nat /\ MaxEnterTime \in Nat /\ MaxTime \in Nat

VARIABLES
    d,         \* d[i]: what New was given for layer i
    honours,   \* whether the handler returns when its context ends
    now,       \* the clock
    pc,        \* "enter", "handler", "leave", "parent" (ctx.Err() read), "done"
    layer,     \* the innermost layer entered and not yet left
    ctx,       \* ctx[i]: the context layer i hands to what it wraps
    due,       \* due[i]: the deadline of context i
    timers,    \* the contexts that have a timer: the others end with their parent
    err,       \* err[i]: ctx.Err() of context i
    cause,     \* history: the context whose end ended context i
    outcome,   \* what the call returns so far; "timeout" is the IsError result
    blamed,    \* the layer whose duration that result quotes
    answer     \* history: what the handler returned

config   == <<d, honours>>
contexts == <<ctx, due, timers>>
vars     == <<config, now, pc, layer, contexts, err, cause, outcome, blamed, answer>>

Contexts == 0..N

TypeOK ==
    /\ d \in [1..N -> Durations] /\ honours \in BOOLEAN
    /\ now \in Nat
    /\ pc \in {"enter", "handler", "leave", "parent", "done"}
    /\ layer \in Contexts
    /\ ctx \in [Contexts -> Contexts]
    /\ due \in [Contexts -> Nat]
    /\ timers \subseteq Contexts
    /\ err \in [Contexts -> {"none", "deadline", "canceled"}]
    /\ cause \in [Contexts -> Contexts]
    /\ outcome \in {"none", "ok", "boom", "ctxerr", "timeout"}
    /\ blamed \in Contexts
    /\ answer \in {"none", "ok", "boom", "ctxerr"}

Init ==
    /\ d \in [1..N -> Durations] /\ honours \in BOOLEAN
    /\ now = 0
    /\ pc = "enter" /\ layer = 0
    /\ ctx = [i \in Contexts |-> 0]
    /\ \E deadline \in CallerDeadlines : due = [i \in Contexts |-> deadline]
    /\ timers = {0}
    /\ err = [i \in Contexts |-> "none"] /\ cause = [i \in Contexts |-> i]
    /\ outcome = "none" /\ blamed = 0 /\ answer = "none"

IsError(o) == o \in {"boom", "ctxerr"}
Parent(i) == ctx[i - 1]

-----------------------------------------------------------------------------
(* Plausible bugs of the definitions below.                                *)

\* A negative duration is handed to context.WithTimeout.
WrapsAlways(i) == TRUE

\* Zero, like a negative duration, disables the layer.
WrapsPositiveOnly(i) == d[i] > 0

\* The result is looked at without asking whether the handler failed.
ExpiredAnyOutcome(i) == err[i] = "deadline"

\* The test is on Canceled instead of DeadlineExceeded.
ExpiredMeansCanceled(i) == IsError(outcome) /\ err[i] = "canceled"

\* The parent's state is not consulted.
BlameAnyway ==
    /\ pc = "parent"
    /\ outcome' = "timeout" /\ blamed' = layer
    /\ layer' = layer - 1 /\ pc' = "leave"
    /\ err' = [err EXCEPT ![layer] = IF @ = "none" THEN "canceled" ELSE @]
    /\ UNCHANGED <<config, now, contexts, cause, answer>>

\* cancel is called only on the way out of a failed call.
KeepReleasesErrors ==
    /\ pc = "leave" /\ layer > 0
    /\ ~(IsError(outcome) /\ err[layer] = "deadline")
    /\ layer' = layer - 1
    /\ err' = [err EXCEPT ![layer] =
                 IF @ = "none" /\ IsError(outcome) THEN "canceled" ELSE @]
    /\ UNCHANGED <<config, now, pc, contexts, cause, outcome, blamed, answer>>

-----------------------------------------------------------------------------
(* The layers, on the way in.                                              *)

Effective(i) == IF d[i] = 0 THEN DefaultTimeout ELSE d[i]
Wraps(i) == Effective(i) >= 0

\* context.WithTimeout: a parent that ends strictly earlier needs no second
\* timer; a parent that has ended ends the child at once.
EnterWrapped(i) ==
    /\ pc = "enter" /\ i = layer + 1 /\ Wraps(i)
    /\ layer' = i
    /\ ctx' = [ctx EXCEPT ![i] = i]
    /\ LET p == Parent(i)
           own == now + Effective(i)
       IN  /\ timers' = IF own <= due[p] THEN timers \cup {i} ELSE timers
           /\ due' = [due EXCEPT ![i] = IF due[p] < own THEN due[p] ELSE own]
           /\ err' = [err EXCEPT ![i] = err[p]]
           /\ cause' = [cause EXCEPT ![i] = IF err[p] = "none" THEN i ELSE cause[p]]
    /\ UNCHANGED <<config, now, pc, outcome, blamed, answer>>

\* A negative duration: the parent's context passes through.
EnterDisabled(i) ==
    /\ pc = "enter" /\ i = layer + 1 /\ ~Wraps(i)
    /\ layer' = i
    /\ ctx' = [ctx EXCEPT ![i] = Parent(i)]
    /\ UNCHANGED <<config, now, pc, due, timers, err, cause, outcome, blamed, answer>>

CallHandler ==
    /\ pc = "enter" /\ layer = N
    /\ pc' = "handler"
    /\ UNCHANGED <<config, now, layer, contexts, err, cause, outcome, blamed, answer>>

-----------------------------------------------------------------------------
(* The handler, which may take any time, and may never return.             *)

HandlerReturns(o) ==
    /\ pc = "handler"
    /\ pc' = "leave"
    /\ outcome' = o /\ answer' = o
    /\ UNCHANGED <<config, now, layer, contexts, err, cause, blamed>>

\* It notices that its context has ended and returns ctx.Err().
HandlerGivesUp == honours /\ err[ctx[N]] # "none" /\ HandlerReturns("ctxerr")

HandlerFinishes == \E o \in {"ok", "boom"} : HandlerReturns(o)

-----------------------------------------------------------------------------
(* The layers, on the way out.                                             *)

Expired(i) == IsError(outcome) /\ err[i] = "deadline"

\* The layer returns, and its deferred cancel ends its context.
Release ==
    /\ layer' = layer - 1
    /\ pc' = "leave"
    /\ err' = [err EXCEPT ![layer] = IF @ = "none" THEN "canceled" ELSE @]
    /\ UNCHANGED <<config, now, contexts, cause, answer>>

LeaveDisabled ==
    /\ pc = "leave" /\ layer > 0 /\ ~Wraps(layer)
    /\ layer' = layer - 1
    /\ UNCHANGED <<config, now, pc, contexts, err, cause, outcome, blamed, answer>>

\* The condition fails before it comes to the parent.
Keep ==
    /\ pc = "leave" /\ layer > 0 /\ Wraps(layer) /\ ~Expired(layer)
    /\ Release
    /\ UNCHANGED <<outcome, blamed>>

\* ctx.Err() has been read; parent.Err() is read later.
Suspect ==
    /\ pc = "leave" /\ layer > 0 /\ Wraps(layer) /\ Expired(layer)
    /\ pc' = "parent"
    /\ UNCHANGED <<config, now, layer, contexts, err, cause, outcome, blamed, answer>>

Blame ==
    /\ pc = "parent" /\ err[Parent(layer)] = "none"
    /\ outcome' = "timeout" /\ blamed' = layer
    /\ Release

Absolve ==
    /\ pc = "parent" /\ err[Parent(layer)] # "none"
    /\ Release
    /\ UNCHANGED <<outcome, blamed>>

Return ==
    /\ pc = "leave" /\ layer = 0
    /\ pc' = "done"
    /\ UNCHANGED <<config, now, layer, contexts, err, cause, outcome, blamed, answer>>

-----------------------------------------------------------------------------
(* Time, timers, and the caller.                                           *)

Tick ==
    /\ pc # "done"
    /\ now < IF pc = "enter" THEN MaxEnterTime ELSE MaxTime
    /\ now' = now + 1
    /\ UNCHANGED <<config, pc, layer, contexts, err, cause, outcome, blamed, answer>>

End(i, e, k) ==
    /\ pc # "done" /\ i <= layer /\ err[i] = "none"
    /\ err' = [err EXCEPT ![i] = e]
    /\ cause' = [cause EXCEPT ![i] = k]
    /\ UNCHANGED <<config, now, pc, layer, contexts, outcome, blamed, answer>>

\* A timer never fires early; nothing bounds how late it fires.
TimerFires(i) == i \in timers /\ now >= due[i] /\ End(i, "deadline", i)

Propagate(i) ==
    /\ i > 0 /\ ctx[i] = i /\ err[Parent(i)] # "none"
    /\ End(i, err[Parent(i)], cause[Parent(i)])

CallerCancels == End(0, "canceled", 0)

-----------------------------------------------------------------------------
Next ==
    \/ \E i \in 1..N : EnterWrapped(i) \/ EnterDisabled(i) \/ Propagate(i)
    \/ \E i \in Contexts : TimerFires(i)
    \/ CallHandler \/ HandlerGivesUp \/ HandlerFinishes
    \/ LeaveDisabled \/ Keep \/ Suspect \/ Blame \/ Absolve \/ Return
    \/ Tick
    \/ CallerCancels

(* The middleware runs, the clock advances, timers fire, and a handler     *)
(* that honours its context notices its end.  The caller need not cancel   *)
(* and the handler need not finish by itself.                              *)
Fairness ==
    /\ \A i \in 1..N : WF_vars(EnterWrapped(i) \/ EnterDisabled(i)) /\ WF_vars(Propagate(i))
    /\ \A i \in Contexts : WF_vars(TimerFires(i))
    /\ WF_vars(CallHandler)
    /\ WF_vars(HandlerGivesUp)
    /\ WF_vars(LeaveDisabled \/ Keep \/ Suspect \/ Blame \/ Absolve \/ Return)
    /\ WF_vars(Tick)

Spec == Init /\ [][Next]_vars /\ Fairness

-----------------------------------------------------------------------------
(* Properties.                                                             *)

\* A layer that reports "exceeded timeout of d" was ended by its own timer,
\* and its time was up: a caller's cancel or deadline, or an outer layer's,
\* is never masqueraded as its own, however the contexts' ends race with
\* its two reads (timeout.go:45-57).
HonestBlame ==
    outcome = "timeout" =>
        /\ Wraps(blamed) /\ cause[blamed] = blamed
        /\ blamed \in timers /\ now >= due[blamed]

\* If the handler gave up and the caller's context is still healthy, the
\* caller gets the tool error and not a bare context error, whatever layers
\* are disabled in between (timeout.go:51-57, README.md:23).
NoBareContextError ==
    pc = "done" /\ outcome = "ctxerr" => err[0] # "none"

\* An answer, and the verdict of an inner layer, reach the caller as they
\* are, also when the deadline of a layer passed meanwhile (timeout.go:51).
SettledIsFinal ==
    [][(outcome \in {"ok", "timeout"}) => UNCHANGED <<outcome, blamed>>]_vars

\* Every context made is released when the call returns, on each of the
\* ways out (timeout.go:41).
ContextsReleased ==
    pc = "done" => \A i \in 1..N : Wraps(i) => err[i] # "none"

\* With a layer that wraps, a call whose handler honours its context ends
\* though nobody cancels it; zero counts as such a layer (timeout.go:32-40).
BoundedCallEnds ==
    pc = "handler" /\ honours /\ (\E i \in 1..N : d[i] >= 0) ~> pc = "done"

\* The claim that a hung upstream is capped (timeout.go:12-16, README.md:23),
\* for every handler.  A handler that ignores its context breaks it.
HungCallIsCut ==
    pc = "handler" /\ (\E i \in 1..N : d[i] >= 0) ~> pc = "done"

\* What timeout_test.go:133 asserts, for every moment the handler may fail
\* at: a non-deadline error passes through.
HandlerErrorSurvives == pc = "done" /\ answer = "boom" => outcome = "boom"

(* The inductive strengthening.  Which layers have been entered, and the   *)
(* shape of the chain of contexts they made.                               *)
Entered(i) == pc = "enter" => i <= layer

ShapeInv ==
    /\ ctx[0] = 0
    /\ \A i \in Contexts : ctx[i] <= i
    /\ \A i \in 1..N : Entered(i) => ctx[i] = IF Wraps(i) THEN i ELSE ctx[i - 1]
    /\ pc = "handler" => layer = N
    /\ pc \in {"enter", "handler"} => outcome = "none"
    /\ pc = "parent" => layer > 0 /\ Wraps(layer) /\ Expired(layer)
    /\ pc = "done" => layer = 0

\* Why a context has ended: its own timer, or an ancestor that has ended.
CauseInv ==
    /\ \A i \in Contexts : cause[i] <= i
    /\ \A i \in Contexts : err[i] = "none" => cause[i] = i
    /\ \A i \in Contexts : err[i] = "deadline" /\ cause[i] = i => i \in timers /\ now >= due[i]
    /\ \A i \in 1..N :
          Wraps(i) /\ Entered(i) /\ err[i] # "none" /\ cause[i] # i => err[Parent(i)] # "none"
    /\ \A i \in 1..N : i <= layer /\ Wraps(i) /\ err[i] = "canceled" => cause[i] # i

\* What has been said of a call that is on its way out.
VerdictInv ==
    /\ outcome = "timeout" =>
          Wraps(blamed) /\ blamed > 0 /\ err[blamed] = "deadline" /\ cause[blamed] = blamed
    /\ outcome = "ctxerr" => err[ctx[layer]] # "none"
    /\ pc \in {"leave", "parent", "done"} =>
          \A i \in 1..N : i > layer /\ Wraps(i) => err[i] # "none"

IInv == TypeOK /\ ShapeInv /\ CauseInv /\ VerdictInv
=============================================================================
