--------------------------- MODULE ServerLifecycle ---------------------------
(***************************************************************************)
(* The life of a server that uses the toolkit, from its start to its exit: *)
(* health's flag and handlers, httpx.Run, of which only the contract in    *)
(* GracefulServe is used, tool calls under the timeout middleware, and the *)
(* telemetry's Shutdown, deferred by main as README.md has it.             *)
(*                                                                         *)
(* The program's main and the platform are not under src/.  main marks     *)
(* itself ready when it has warmed up and, on SIGTERM, revokes that as the *)
(* comment on health.New asks, waits for the lame duck's time and cancels. *)
(* The platform probes every ProbePeriod, routes calls to a ready server   *)
(* and kills it a while after SIGTERM.  Time is counted in ticks.          *)
(***************************************************************************)
EXTENDS Integers

CONSTANTS
    Calls,
    Setups,                 \* [grace, lameDuck, callTimeout, flush, killAfter]
    DefaultShutdownTimeout,
    ProbePeriod

ASSUME TimesAssumption ==
    /\ DefaultShutdownTimeout \in Nat \ {0} /\ ProbePeriod \in Nat \ {0}
    /\ \A s \in Setups : /\ s.grace \in Int
                         /\ {s.lameDuck, s.callTimeout, s.flush, s.killAfter} \subseteq Nat

VARIABLES
    setup,      \* how this server and its platform are set up
    stubborn,   \* the calls whose handler does not heed its context
    main,       \* "starting", "serving", "lameduck", "stopping", "flushing", "exited", "killed"
    ready,      \* health: the flag
    routed,     \* what the last probe of /readyz found: the platform sends calls
    restart,    \* a probe of /healthz found the server dead
    call,       \* "none", "running", "answered", "refused", "cut"
    ended,      \* calls whose span ended while the tracer provider was up
    exported,   \* calls whose span has left the process
    clocks,     \* ticks since: [probe, term, stop, flush], age of each call
    phase, closed, live, outcome   \* Run, as GracefulServe has it

runVars == <<phase, closed, live, outcome>>
vars == <<setup, stubborn, main, ready, routed, restart, call, ended, exported, clocks, runVars>>

Contract == INSTANCE GracefulServe WITH Conns <- Calls

Off == -1   \* a clock that has not been started
Running == {c \in Calls : call[c] = "running"}
Over == main \in {"exited", "killed"}
Listening == phase # "idle" /\ ~closed

TypeOK ==
    /\ setup \in Setups /\ stubborn \subseteq Calls
    /\ main \in {"starting", "serving", "lameduck", "stopping", "flushing", "exited", "killed"}
    /\ ready \in BOOLEAN /\ routed \in BOOLEAN /\ restart \in BOOLEAN
    /\ call \in [Calls -> {"none", "running", "answered", "refused", "cut"}]
    /\ ~Over => live = Running
    /\ exported \subseteq ended /\ ended \subseteq Calls
    /\ clocks \in [probe : 0..ProbePeriod, term : Nat \cup {Off}, stop : Nat \cup {Off},
                   flush : Nat \cup {Off}, age : [Calls -> Nat]]
    /\ phase \in {"idle", "serving", "stopping"} /\ closed \in BOOLEAN
    /\ outcome \in Contract!Outcomes \cup {"none"}
    /\ clocks.term # Off => ~ready

-----------------------------------------------------------------------------
(* Plausible bugs of the definitions below.                                *)

\* Zero means no deadline, as for the timeouts of http.Server.
ZeroIsForever(grace) == IF grace = 0 THEN 99 ELSE grace

\* Zero is passed on: no grace at all.
GraceAsGiven(grace) == grace

\* /readyz answers like /healthz.
AlwaysReady == 200

\* Whoever sets it, the flag goes up.
SetReadyOnce(v) == ready' = TRUE

\* The tracer provider is shut down by the cancel that stops Run.
CancelFlushesToo ==
    /\ main = "lameduck" /\ clocks.term >= setup.lameDuck
    /\ main' = "stopping"
    /\ Contract!Stop
    /\ clocks' = [clocks EXCEPT !.stop = 0, !.flush = 0]
    /\ UNCHANGED <<setup, stubborn, ready, routed, restart, call, ended, exported>>

-----------------------------------------------------------------------------
(* Health.                                                                 *)

New == FALSE
SetReady(v) == ready' = v
Liveness == 200
Readiness == IF ready THEN 200 ELSE 503
Mount(path) == CASE path = "/healthz" -> Liveness
                 [] path = "/readyz" -> Readiness

Init ==
    /\ setup \in Setups /\ stubborn \in SUBSET Calls
    /\ main = "starting" /\ ready = New
    /\ routed = FALSE /\ restart = FALSE
    /\ call = [c \in Calls |-> "none"]
    /\ ended = {} /\ exported = {}
    /\ clocks = [probe |-> 0, term |-> Off, stop |-> Off, flush |-> Off, age |-> [c \in Calls |-> 0]]
    /\ Contract!Init

-----------------------------------------------------------------------------
(* main, on both sides of Run.                                             *)

EnterRun ==
    /\ main = "starting" /\ main' = "serving"
    /\ Contract!Start
    /\ UNCHANGED <<setup, stubborn, ready, routed, restart, call, ended, exported, clocks>>

WarmedUp ==
    /\ main = "serving" /\ ~ready
    /\ SetReady(TRUE)
    /\ UNCHANGED <<setup, stubborn, main, routed, restart, call, ended, exported, clocks, runVars>>

Sigterm ==
    /\ main = "serving" /\ main' = "lameduck"
    /\ SetReady(FALSE)
    /\ clocks' = [clocks EXCEPT !.term = 0]
    /\ UNCHANGED <<setup, stubborn, routed, restart, call, ended, exported, runVars>>

\* The lame duck's time is up: ctx is cancelled, and Run notices.
Cancel ==
    /\ main = "lameduck" /\ clocks.term >= setup.lameDuck
    /\ main' = "stopping"
    /\ Contract!Stop
    /\ clocks' = [clocks EXCEPT !.stop = 0]
    /\ UNCHANGED <<setup, stubborn, ready, routed, restart, call, ended, exported>>

CloseServer ==
    /\ main = "stopping" /\ Contract!Close
    /\ UNCHANGED <<setup, stubborn, main, ready, routed, restart, call, ended, exported, clocks>>

\* What Run makes of the timeout it is given.
Grace(grace) == IF grace = 0 THEN DefaultShutdownTimeout ELSE grace
GraceIsOver == clocks.stop >= Grace(setup.grace)

\* Run's own three ways out of a cancel; a server that has failed is drained
\* like any other before its error is returned.
Drained == closed /\ phase = "stopping" /\ Contract!Return("nil")
DrainedAfterFailure == closed /\ live = {} /\ Contract!Return("accept")
OutOfGrace == GraceIsOver /\ Contract!Return("shutdown")

\* Run has returned; the deferred Shutdown of the tracer provider begins.
RunReturns ==
    /\ main = "stopping"
    /\ Drained \/ DrainedAfterFailure \/ OutOfGrace
    /\ main' = "flushing"
    /\ clocks' = [clocks EXCEPT !.flush = 0]
    /\ UNCHANGED <<setup, stubborn, ready, routed, restart, call, ended, exported>>

\* The server returns before the cancel: Run returns too, and drains nothing.
ServerFails ==
    /\ main \in {"serving", "lameduck"}
    /\ Contract!Return("accept")
    /\ main' = "flushing"
    /\ clocks' = [clocks EXCEPT !.flush = 0]
    /\ UNCHANGED <<setup, stubborn, ready, routed, restart, call, ended, exported>>

CutShort == call' = [c \in Calls |-> IF call[c] = "running" THEN "cut" ELSE call[c]]

\* Shutdown has exported the spans that had ended when it began.
Exit ==
    /\ main = "flushing" /\ main' = "exited"
    /\ exported' = ended
    /\ CutShort
    /\ UNCHANGED <<setup, stubborn, ready, routed, restart, ended, clocks, runVars>>

-----------------------------------------------------------------------------
(* The platform, the callers, and time.                                    *)

Get(path) == IF Listening THEN Mount(path) ELSE 0

Probe ==
    /\ ~Over /\ clocks.probe = ProbePeriod
    /\ routed' = (Get("/readyz") = 200)
    /\ restart' = (restart \/ (main = "serving" /\ Get("/healthz") # 200))
    /\ clocks' = [clocks EXCEPT !.probe = 0]
    /\ UNCHANGED <<setup, stubborn, main, ready, call, ended, exported, runVars>>

Arrives(c) ==
    /\ ~Over /\ routed /\ call[c] = "none"
    /\ IF Listening
       THEN Contract!Arrive(c) /\ call' = [call EXCEPT ![c] = "running"]
       ELSE call' = [call EXCEPT ![c] = "refused"] /\ UNCHANGED runVars
    /\ UNCHANGED <<setup, stubborn, main, ready, routed, restart, ended, exported, clocks>>

\* A span that ends after the provider's Shutdown has begun is dropped.
Answer(c) ==
    /\ ~Over /\ call[c] = "running"
    /\ call' = [call EXCEPT ![c] = "answered"]
    /\ Contract!Depart({c})
    /\ ended' = IF clocks.flush = Off THEN ended \cup {c} ELSE ended
    /\ UNCHANGED <<setup, stubborn, main, ready, routed, restart, exported, clocks>>

Kill ==
    /\ ~Over /\ clocks.term = setup.killAfter
    /\ main' = "killed"
    /\ CutShort
    /\ UNCHANGED <<setup, stubborn, ready, routed, restart, ended, exported, clocks, runVars>>

\* What is due now happens before time goes on.  A handler that heeds its
\* context returns when its timeout has passed.
NothingDue ==
    /\ clocks.probe < ProbePeriod
    /\ clocks.term # setup.killAfter
    /\ main = "lameduck" => clocks.term < setup.lameDuck
    /\ main = "stopping" => closed /\ ~GraceIsOver
    /\ main = "flushing" => clocks.flush < setup.flush
    /\ \A c \in Running \ stubborn : clocks.age[c] < setup.callTimeout

Tick ==
    /\ ~Over /\ NothingDue
    /\ LET Aged(t) == IF t = Off THEN Off ELSE t + 1
       IN  clocks' = [probe |-> clocks.probe + 1,
                      term |-> Aged(clocks.term),
                      stop |-> IF main = "stopping" THEN clocks.stop + 1 ELSE clocks.stop,
                      flush |-> Aged(clocks.flush),
                      age |-> [c \in Calls |-> IF c \in Running \ stubborn THEN clocks.age[c] + 1
                                               ELSE clocks.age[c]]]
    /\ UNCHANGED <<setup, stubborn, main, ready, routed, restart, call, ended, exported, runVars>>

Ended == Over /\ UNCHANGED vars

Next ==
    \/ EnterRun \/ WarmedUp \/ Sigterm \/ Cancel \/ CloseServer
    \/ RunReturns \/ ServerFails \/ Exit
    \/ Probe \/ Kill \/ Tick \/ Ended
    \/ \E c \in Calls : Arrives(c) \/ Answer(c)

\* Every part is scheduled, and time passes.
Spec == Init /\ [][Next]_vars /\ WF_vars(Next)

-----------------------------------------------------------------------------
(* Properties.                                                             *)

GraceGiven == IF setup.grace = 0 THEN DefaultShutdownTimeout ELSE setup.grace

\* The exit cuts a call off in three cases only: Run returned at once because
\* the server failed (httpx.go:43-46); the call had the whole grace, which is
\* no longer than a call may take (httpx.go:11-15); or the platform killed
\* the server (see ExitsInTime).
NoCallCut ==
    \A c \in Calls : call[c] = "cut" =>
        \/ outcome = "accept"
        \/ outcome = "shutdown" /\ clocks.stop >= GraceGiven
             /\ (c \in stubborn \/ GraceGiven <= setup.callTimeout)
        \/ main = "killed"

\* Not ready is not dead: no probe ever has the server restarted while it
\* warms up.  And a server that stays up for a probe's period after it has
\* revoked its readiness turns no caller away, unless its listener fails
\* (health.go:8-10, 17-19).
NoCallRefused ==
    /\ ~restart
    /\ setup.lameDuck > ProbePeriod /\ outcome # "accept" => \A c \in Calls : call[c] # "refused"

\* When the server has exited by itself and Run returned nil, the span of
\* every call answered is exported, whenever it was answered: none can still
\* end behind the tracer's Shutdown.
SpansExported ==
    main = "exited" /\ outcome = "nil" =>
        \A c \in Calls : call[c] = "answered" <=> c \in exported

\* The times add up to less than the platform allows.
InTime ==
    setup.lameDuck + (IF GraceGiven < 0 THEN 0 ELSE GraceGiven) + setup.flush < setup.killAfter

\* After SIGTERM the server exits by itself, ahead of the platform's kill, if
\* the times it was given allow it (httpx.go:11-14).
ExitsInTime == clocks.term # Off /\ InTime ~> main = "exited"

-----------------------------------------------------------------------------
(* What makes the safety properties inductive.                             *)

Answered == {c \in Calls : call[c] = "answered"}

\* Where main is, Run is, and which clocks go.
RunInv ==
    /\ main = "starting" => phase = "idle" /\ outcome = "none" /\ ~routed
    /\ main \in {"serving", "lameduck"} => phase = "serving"
    /\ main \in {"starting", "serving", "lameduck"} => ~closed
    /\ main = "stopping" => phase = "stopping" /\ clocks.stop \in Nat /\ (~closed => clocks.stop = 0)
    /\ main \in {"serving", "lameduck", "stopping"} => outcome = "none"
    /\ main \in {"flushing", "exited"} => phase = "idle" /\ outcome \in {"nil", "accept", "shutdown"}
    /\ main \notin {"flushing", "exited", "killed"} => clocks.flush = Off
    /\ main \in {"flushing", "exited"} => clocks.flush \in Nat
    /\ main \in {"starting", "serving"} <=> clocks.term = Off /\ main \notin {"flushing", "exited", "killed"}

\* After SIGTERM the platform routes calls until its next probe and no longer.
RoutedInv ==
    /\ routed /\ clocks.term # Off => clocks.term <= clocks.probe
    /\ routed /\ main \in {"stopping", "flushing"} /\ setup.lameDuck > ProbePeriod => outcome = "accept"

\* A call that heeds its context is no older than it may be, and as old as
\* the stop it has lived through.
AgeInv ==
    /\ \A c \in Calls : call[c] = "none" => clocks.age[c] = 0
    /\ \A c \in Running \ stubborn :
          /\ clocks.age[c] <= setup.callTimeout
          /\ main = "stopping" => clocks.stop <= clocks.age[c]
          /\ main = "flushing" /\ outcome = "shutdown" => GraceGiven <= setup.callTimeout

\* What the exit will cut, and what it will export.
ExitInv ==
    /\ \A c \in Calls : call[c] = "cut" => Over
    /\ main = "flushing" /\ outcome = "shutdown" => clocks.stop >= GraceGiven
    /\ main = "flushing" /\ outcome = "nil" => Running = {} /\ ended = Answered
    /\ clocks.flush = Off => ended = Answered
    /\ main # "exited" => exported = {}

IInv == TypeOK /\ RunInv /\ RoutedInv /\ AgeInv /\ ExitInv /\ NoCallCut /\ NoCallRefused /\ SpansExported
=============================================================================
