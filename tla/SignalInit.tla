----------------------------- MODULE SignalInit -----------------------------
(***************************************************************************)
(* tracing.Init, metrics.Init and logging.Init as a program's main calls   *)
(* them: each may build a telemetry pipeline (an exporter or reader with   *)
(* its goroutines and connections, then the provider that owns it), each   *)
(* may fail half way, and the program gets one Shutdown per signal to      *)
(* defer.  The program is the one of the README and the package examples:  *)
(* it defers every Shutdown it gets, and after an Init that failed it goes *)
(* on without that signal or leaves, its deferred Shutdowns running on the *)
(* way out.  The OpenTelemetry SDK is not under src/: a pipeline keeps     *)
(* only whether it runs, and whether a provider owns it.  The package docs *)
(* ask for one Init per signal; nothing in the code enforces it, so the    *)
(* program may call an Init again.                                         *)
(***************************************************************************)
EXTENDS Integers, Sequences

CONSTANT MaxInits   \* bound: pipelines made, and Shutdowns held, by one process

ASSUME MaxInitsAssumption == MaxInits \in Nat

VARIABLES
    env,         \* the environment variables that are set and not empty
    program,     \* "running", "leaving" (deferred calls), "left"
    pc,          \* where an Init is: "out", "exporter", "resource", "provider"
    signal,      \* the signal being initialised, or the last one
    pipelines,   \* every pipeline ever made: [signal, state]
    global,      \* global[s]: the pipeline of the global provider, 0 the no-op one
    propagator,  \* the W3C propagators are installed
    deferred,    \* the Shutdowns the program has deferred, latest last
    returned,    \* what the last Init returned
    before       \* history: how the last Init found things

otel == <<pipelines, global, propagator>>
vars == <<env, program, pc, signal, otel, deferred, returned, before>>

Signals == {"traces", "metrics", "logs"}

\* OTEL_EXPORTER_OTLP_ENDPOINT is <<"endpoint", "all">>.
EnvVars == {"endpoint"} \X (Signals \cup {"all"}) \cup {"exporter"} \X Signals

States == {"exporter", "provider", "closed"}
Pipelines == 1..Len(pipelines)
Live(p) == pipelines[p].state # "closed"
Found == [global |-> global, live |-> {p \in Pipelines : Live(p)}, held |-> deferred]

TypeOK ==
    /\ env \subseteq EnvVars
    /\ program \in {"running", "leaving", "left"}
    /\ pc \in {"out", "exporter", "resource", "provider"}
    /\ signal \in Signals \cup {"none"}
    /\ pipelines \in Seq([signal : Signals, state : States])
    /\ global \in [Signals -> 0..Len(pipelines)]
    /\ propagator \in BOOLEAN
    /\ deferred \in Seq(0..Len(pipelines))
    /\ returned \in {"none", "noop", "pipeline", "error"}

Init ==
    /\ env \in SUBSET EnvVars
    /\ program = "running" /\ pc = "out" /\ signal = "none"
    /\ pipelines = <<>>
    /\ global = [s \in Signals |-> 0]
    /\ propagator = FALSE
    /\ deferred = <<>>
    /\ returned = "none"
    /\ before = Found

Current == Len(pipelines)
SetState(p, state) == pipelines' = [pipelines EXCEPT ![p].state = state]

-----------------------------------------------------------------------------
(* Plausible bugs of the definitions below.                                *)

\* The propagator is installed only when traces are exported.
TracingPropagatorLate ==
    /\ pc = "out" /\ program = "running" /\ Len(pipelines) < MaxInits /\ Len(deferred) < MaxInits
    /\ signal' = "traces"
    /\ propagator' = (propagator \/ env \cap {<<"endpoint", "traces">>, <<"endpoint", "all">>, <<"exporter", "traces">>} # {})
    /\ IF env \cap {<<"endpoint", "traces">>, <<"endpoint", "all">>, <<"exporter", "traces">>} # {}
       THEN pc' = "exporter" /\ UNCHANGED <<program, deferred, returned>>
       ELSE /\ returned' = "noop" /\ deferred' = Append(deferred, 0)
            /\ UNCHANGED <<pc, program>>
    /\ before' = Found
    /\ UNCHANGED <<env, pipelines, global>>

\* The deferred shutdown of the exporter is missing.
ReleaseNothing == UNCHANGED pipelines

\* The exporter is taken for unowned on every way out, success included.
OwnNothing == SetState(Current, "closed")

\* The global provider is replaced by the no-op one when Init fails.
FailResets ==
    /\ returned' = "error" /\ program' \in {"running", "leaving"} /\ pc' = "out"
    /\ global' = [global EXCEPT ![signal] = 0]
    /\ UNCHANGED <<env, signal, propagator, deferred, before>>

\* The program defers what Init returned before it looks at the error: the
\* Shutdown of no pipeline.
FailDefersNil ==
    /\ returned' = "error" /\ program' \in {"running", "leaving"} /\ pc' = "out"
    /\ deferred' = Append(deferred, Len(pipelines) + 1)
    /\ UNCHANGED <<env, signal, global, propagator, before>>

-----------------------------------------------------------------------------
Configured(s) == env \cap {<<"endpoint", s>>, <<"endpoint", "all">>, <<"exporter", s>>} # {}

(* The ways out of an Init.  The program defers the Shutdown it gets; on   *)
(* an error there is none, and it leaves or goes on without the signal.    *)
ReturnNoop ==
    /\ returned' = "noop" /\ deferred' = Append(deferred, 0)
    /\ UNCHANGED <<pc, program>>

Fail ==
    /\ returned' = "error" /\ program' \in {"running", "leaving"} /\ pc' = "out"
    /\ UNCHANGED <<env, signal, global, propagator, deferred, before>>

ReturnPipeline ==
    /\ returned' = "pipeline" /\ deferred' = Append(deferred, Current) /\ pc' = "out"
    /\ UNCHANGED <<env, program, signal, propagator, before>>

\* The deferred call that runs unless a provider has taken the exporter.
ReleaseUnowned == SetState(Current, "closed")

\* The provider owns the exporter from here on.
Own == SetState(Current, "provider")

MayInit ==
    /\ pc = "out" /\ program = "running"
    /\ Len(pipelines) < MaxInits /\ Len(deferred) < MaxInits   \* bounds

TracingInit ==
    /\ MayInit
    /\ signal' = "traces" /\ before' = Found
    /\ propagator' = TRUE
    /\ \/ Configured("traces") /\ pc' = "exporter" /\ UNCHANGED <<program, deferred, returned>>
       \/ ~Configured("traces") /\ ReturnNoop
    /\ UNCHANGED <<env, pipelines, global>>

MetricsInit ==
    /\ MayInit
    /\ signal' = "metrics" /\ before' = Found
    /\ \/ Configured("metrics") /\ pc' = "exporter" /\ UNCHANGED <<program, deferred, returned>>
       \/ ~Configured("metrics") /\ ReturnNoop
    /\ UNCHANGED <<env, otel>>

\* WithStderrMirror is an error without an OTLP pipeline to mirror.
LoggingInit(stderrMirror) ==
    /\ MayInit
    /\ signal' = "logs" /\ before' = Found
    /\ \/ Configured("logs") /\ pc' = "exporter" /\ UNCHANGED <<program, deferred, returned>>
       \/ ~Configured("logs") /\ ~stderrMirror /\ ReturnNoop
       \/ /\ ~Configured("logs") /\ stderrMirror
          /\ returned' = "error" /\ program' \in {"running", "leaving"}
          /\ UNCHANGED <<pc, deferred>>
    /\ UNCHANGED <<env, otel>>

\* autoexport: one exporter or reader, or an error and nothing made.
NewExporter ==
    /\ pc = "exporter"
    /\ \/ /\ pipelines' = Append(pipelines, [signal |-> signal, state |-> "exporter"])
          /\ pc' = "resource"
          /\ UNCHANGED <<env, program, signal, global, propagator, deferred, returned, before>>
       \/ Fail /\ UNCHANGED pipelines

\* A partial resource counts as success; any other error ends the Init.
Build(err) ==
    /\ pc = "resource"
    /\ \/ /\ err \in {"nil", "partial"}
          /\ pc' = "provider"
          /\ UNCHANGED <<env, program, signal, otel, deferred, returned, before>>
       \/ err = "fatal" /\ Fail /\ ReleaseUnowned

InstallProvider(s) ==
    /\ pc = "provider" /\ signal = s
    /\ Own
    /\ global' = [global EXCEPT ![s] = Current]
    /\ ReturnPipeline

InstallTracerProvider == InstallProvider("traces")
InstallMeterProvider == InstallProvider("metrics")
InstallLoggerProvider == InstallProvider("logs")

-----------------------------------------------------------------------------
(* The program: it may leave between two Inits, and then runs its deferred *)
(* Shutdowns, the latest first.                                            *)
Leave ==
    /\ program = "running" /\ pc = "out"
    /\ program' = "leaving"
    /\ UNCHANGED <<env, pc, signal, otel, deferred, returned, before>>

RunDeferred ==
    /\ program = "leaving" /\ deferred # <<>>
    /\ LET p == deferred[Len(deferred)]
       IN  IF p = 0 THEN UNCHANGED pipelines ELSE SetState(p, "closed")
    /\ deferred' = SubSeq(deferred, 1, Len(deferred) - 1)
    /\ UNCHANGED <<env, program, pc, signal, global, propagator, returned, before>>

Exit ==
    /\ program = "leaving" /\ deferred = <<>>
    /\ program' = "left"
    /\ UNCHANGED <<env, pc, signal, otel, deferred, returned, before>>

Next ==
    \/ TracingInit \/ MetricsInit
    \/ \E mirror \in BOOLEAN : LoggingInit(mirror)
    \/ NewExporter
    \/ \E err \in {"nil", "partial", "fatal"} : Build(err)
    \/ InstallTracerProvider \/ InstallMeterProvider \/ InstallLoggerProvider
    \/ Leave \/ RunDeferred \/ Exit

Spec == Init /\ [][Next]_vars

-----------------------------------------------------------------------------
(* Properties.                                                             *)

Deferred(p) == \E i \in 1..Len(deferred) : deferred[i] = p

\* Between two Inits the pipelines that run are just those whose Shutdown the
\* program holds, each once, and a provider owns them: an Init that failed
\* half way leaves no exporter behind, one that succeeded has not closed what
\* it hands over, and a second one of a signal takes nothing from the first
\* (tracing.go:57-60, 91-97, 110, metrics.go:126-132, init.go:122-128).
NoOrphan ==
    pc = "out" =>
        /\ \A p \in Pipelines : Live(p) => pipelines[p].state = "provider" /\ Deferred(p)
        /\ \A i \in 1..Len(deferred) : deferred[i] # 0 =>
             Live(deferred[i]) /\ \A j \in 1..Len(deferred) : deferred[j] = deferred[i] => j = i

\* While the program runs, a global provider exports through a live pipeline
\* of its own signal, and no success path closes the exporter it has just
\* handed over (tracing.go:108, metrics.go:156, init.go:139).
GlobalExports ==
    program = "running" => \A s \in Signals :
        global[s] # 0 => pipelines[global[s]] = [signal |-> s, state |-> "provider"]

\* An Init that fails leaves no trace, wherever it fails, the refusal of the
\* mirror included: the global providers, the pipelines that run and the
\* Shutdowns held are what they were when it began (init.go:82-89, 122-130,
\* tracing.go:87-102, metrics.go:126-140).
FailureLeavesNoTrace ==
    program = "running" /\ pc = "out" /\ returned = "error" => Found = before

\* The propagators are in place once tracing.Init has been called, also when
\* it exports nothing or fails, so trace headers chain (tracing.go:79-81).
Propagates ==
    pc = "out" /\ signal = "traces" => propagator

-----------------------------------------------------------------------------
(* What makes the properties inductive.                                    *)

\* Only a running program is inside an Init, and an Init has a signal.
PlaceInv ==
    /\ pc # "out" => program = "running" /\ signal \in Signals
    /\ program = "left" => deferred = <<>>
    /\ signal = "traces" => propagator

\* After the exporter step of an Init, the newest pipeline is its own.
MakingInv ==
    pc \in {"resource", "provider"} =>
        Pipelines # {} /\ pipelines[Current] = [signal |-> signal, state |-> "exporter"]

\* Every other pipeline that runs has an owner, and the program its Shutdown.
OwnerInv ==
    \A p \in Pipelines :
        \/ ~Live(p)
        \/ p = Current /\ pc \in {"resource", "provider"}
        \/ pipelines[p].state = "provider" /\ Deferred(p)

\* Every Shutdown held is of a pipeline that runs, and held once.
HeldInv ==
    \A i \in 1..Len(deferred) : deferred[i] # 0 =>
        /\ pipelines[deferred[i]].state = "provider"
        /\ \A j \in 1..Len(deferred) : deferred[j] = deferred[i] => j = i

\* All that an Init adds until it is over is the pipeline it is making.
TraceInv ==
    program = "running" /\ (pc # "out" \/ returned = "error") =>
        /\ global = before.global /\ deferred = before.held
        /\ before.live = {p \in Pipelines : Live(p) /\ ~(p = Current /\ pc \in {"resource", "provider"})}
        /\ before = [global |-> before.global, live |-> before.live, held |-> before.held]

IInv == TypeOK /\ PlaceInv /\ MakingInv /\ OwnerInv /\ HeldInv /\ TraceInv /\ GlobalExports
=============================================================================
