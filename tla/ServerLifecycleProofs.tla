------------------------ MODULE ServerLifecycleProofs ------------------------
(***************************************************************************)
(* What holds of a server from its start to its exit for any number of     *)
(* calls, any setting of the five times and any period of the probes: the  *)
(* inductive invariant IInv of ServerLifecycle.  There is one lemma for    *)
(* each action, and one step in it for each part of IInv.                  *)
(***************************************************************************)
EXTENDS ServerLifecycle, TLAPS

LEMMA InitIInv == Init => IInv
<1> SUFFICES ASSUME Init PROVE IInv
  OBVIOUS
<1>1. TypeOK
  <2>1. clocks \in [probe : 0..ProbePeriod, term : Nat \cup {Off}, stop : Nat \cup {Off},
                   flush : Nat \cup {Off}, age : [Calls -> Nat]]
    BY TimesAssumption DEF Init
  <2>2. live = Running
    BY DEF Init, Contract!Init, Running
  <2>3. call \in [Calls -> {"none", "running", "answered", "refused", "cut"}]
    BY DEF Init
  <2>4. clocks.term = Off /\ ready = FALSE
    BY DEF Init, New
  <2> QED
    BY <2>1, <2>2, <2>3, <2>4 DEF Init, TypeOK, Contract!Init
<1>2. RunInv /\ RoutedInv
  BY DEF Init, RunInv, RoutedInv, Contract!Init, Off
<1>3. AgeInv /\ ExitInv
  BY DEF Init, AgeInv, ExitInv, Contract!Init, Running, Answered, Off
<1>4. NoCallCut /\ NoCallRefused /\ SpansExported
  BY DEF Init, NoCallCut, NoCallRefused, SpansExported
<1> QED
  BY <1>1, <1>2, <1>3, <1>4 DEF IInv

LEMMA StutterIInv == ASSUME IInv, UNCHANGED vars PROVE IInv'
<1>1. TypeOK' /\ RunInv' /\ RoutedInv'
  BY DEF IInv, TypeOK, RunInv, RoutedInv, Over, Running, vars, runVars
<1>2. AgeInv' /\ ExitInv'
  BY DEF IInv, AgeInv, ExitInv, Over, Running, Answered, GraceGiven, vars, runVars
<1>3. NoCallCut' /\ NoCallRefused' /\ SpansExported'
  BY DEF IInv, NoCallCut, NoCallRefused, SpansExported, GraceGiven, vars, runVars
<1> QED
  BY <1>1, <1>2, <1>3 DEF IInv

(* main enters Run; nothing has happened yet. *)
LEMMA EnterRunIInv == ASSUME IInv, EnterRun PROVE IInv'
<1>1. TypeOK'
  BY DEF EnterRun, Contract!Start, IInv, TypeOK, Over, Running
<1>2. RunInv'
  BY DEF EnterRun, Contract!Start, IInv, RunInv
<1>3. RoutedInv'
  BY DEF EnterRun, IInv, RoutedInv
<1>4. AgeInv'
  BY DEF EnterRun, IInv, AgeInv, Running
<1>5. ExitInv'
  BY DEF EnterRun, IInv, ExitInv, Answered, Over
<1>6. NoCallCut'
  BY DEF EnterRun, IInv, ExitInv, NoCallCut, Over
<1>7. NoCallRefused'
  BY DEF EnterRun, IInv, RunInv, NoCallRefused
<1>8. SpansExported'
  BY DEF EnterRun, SpansExported
<1> QED
  BY <1>1, <1>2, <1>3, <1>4, <1>5, <1>6, <1>7, <1>8 DEF IInv

(* The flag goes up before any SIGTERM. *)
LEMMA WarmedUpIInv == ASSUME IInv, WarmedUp PROVE IInv'
<1>1. TypeOK'
  BY DEF WarmedUp, SetReady, IInv, TypeOK, Over, Running, runVars, RunInv
<1>2. RunInv'
  BY DEF WarmedUp, IInv, RunInv, runVars
<1>3. RoutedInv'
  BY DEF WarmedUp, IInv, RoutedInv
<1>4. AgeInv'
  BY DEF WarmedUp, IInv, AgeInv, Running
<1>5. ExitInv'
  BY DEF WarmedUp, IInv, ExitInv, Answered, Over
<1>6. NoCallCut'
  BY DEF WarmedUp, IInv, NoCallCut, GraceGiven, runVars
<1>7. NoCallRefused'
  BY DEF WarmedUp, IInv, NoCallRefused, runVars
<1>8. SpansExported'
  BY DEF WarmedUp, SpansExported
<1> QED
  BY <1>1, <1>2, <1>3, <1>4, <1>5, <1>6, <1>7, <1>8 DEF IInv

(* The flag goes down for good, and the clock of the SIGTERM starts at 0. *)
LEMMA SigtermIInv == ASSUME IInv, Sigterm PROVE IInv'
<1>1. TypeOK'
  BY TimesAssumption DEF Sigterm, SetReady, IInv, TypeOK, Over, Running, Off, runVars,
         Listening, Contract!Outcomes, RunInv
<1>2. RunInv'
  BY DEF Sigterm, IInv, RunInv, Off, runVars
<1>3. RoutedInv'
  BY DEF Sigterm, IInv, TypeOK, RoutedInv
<1>4. AgeInv'
  BY DEF Sigterm, IInv, AgeInv, Running
<1>5. ExitInv'
  BY DEF Sigterm, IInv, ExitInv, Answered, Over
<1>6. NoCallCut'
  BY DEF Sigterm, IInv, NoCallCut, GraceGiven, runVars
<1>7. NoCallRefused'
  BY DEF Sigterm, IInv, NoCallRefused, runVars
<1>8. SpansExported'
  BY DEF Sigterm, SpansExported
<1> QED
  BY <1>1, <1>2, <1>3, <1>4, <1>5, <1>6, <1>7, <1>8 DEF IInv

(* The lame duck is over: if it was longer than a probe's period, the probe *)
(* has taken the server off the routes.  Every call is older than the stop. *)
LEMMA CancelIInv == ASSUME IInv, Cancel PROVE IInv'
<1>1. TypeOK'
  BY DEF Cancel, Contract!Stop, IInv, TypeOK, Over, Running
<1>2. RunInv'
  BY DEF Cancel, Contract!Stop, IInv, RunInv
<1>3. RoutedInv'
  BY TimesAssumption DEF Cancel, IInv, TypeOK, RoutedInv, Off
<1>4. AgeInv'
  BY DEF Cancel, IInv, TypeOK, AgeInv, Running
<1>5. ExitInv'
  BY DEF Cancel, IInv, ExitInv, Answered, Over
<1>6. NoCallCut'
  BY DEF Cancel, IInv, ExitInv, NoCallCut, Over
<1>7. NoCallRefused'
  BY DEF Cancel, IInv, RunInv, NoCallRefused
<1>8. SpansExported'
  BY DEF Cancel, SpansExported
<1> QED
  BY <1>1, <1>2, <1>3, <1>4, <1>5, <1>6, <1>7, <1>8 DEF IInv

(* From here on a stop takes time. *)
LEMMA CloseServerIInv == ASSUME IInv, CloseServer PROVE IInv'
<1>1. TypeOK'
  BY DEF CloseServer, Contract!Close, IInv, TypeOK, Over, Running
<1>2. RunInv'
  BY DEF CloseServer, Contract!Close, IInv, RunInv
<1>3. RoutedInv'
  BY DEF CloseServer, IInv, RunInv, RoutedInv
<1>4. AgeInv'
  BY DEF CloseServer, IInv, AgeInv, Running
<1>5. ExitInv'
  BY DEF CloseServer, IInv, ExitInv, Answered, Over
<1>6. NoCallCut'
  BY DEF CloseServer, IInv, ExitInv, NoCallCut, Over
<1>7. NoCallRefused'
  BY DEF CloseServer, IInv, RunInv, NoCallRefused
<1>8. SpansExported'
  BY DEF CloseServer, SpansExported
<1> QED
  BY <1>1, <1>2, <1>3, <1>4, <1>5, <1>6, <1>7, <1>8 DEF IInv

(* nil means no call is left; a deadline means that the grace is over, so a *)
(* call that is still there and heeds its context may take at least as long. *)
LEMMA RunReturnsIInv == ASSUME IInv, RunReturns PROVE IInv'
<1>1. TypeOK'
  BY DEF RunReturns, Drained, DrainedAfterFailure, OutOfGrace, Contract!Return, IInv, TypeOK,
         Over, Running, Contract!Outcomes
<1>2. RunInv'
  BY DEF RunReturns, Drained, DrainedAfterFailure, OutOfGrace, Contract!Return, RunInv
<1>3. RoutedInv'
  BY DEF RunReturns, IInv, RunInv, RoutedInv
<1>4. AgeInv'
  BY TimesAssumption DEF RunReturns, Drained, DrainedAfterFailure, OutOfGrace, GraceIsOver,
         Grace, Contract!Return, IInv, TypeOK, AgeInv, Running, GraceGiven, Off
<1>5. ExitInv'
  BY DEF RunReturns, Drained, DrainedAfterFailure, OutOfGrace, GraceIsOver, Grace,
         Contract!Return, IInv, TypeOK, RunInv, ExitInv, Running, Answered, GraceGiven, Over
<1>6. NoCallCut'
  BY DEF RunReturns, IInv, ExitInv, NoCallCut, Over
<1>7. NoCallRefused'
  BY DEF RunReturns, IInv, RunInv, NoCallRefused
<1>8. SpansExported'
  BY DEF RunReturns, SpansExported
<1> QED
  BY <1>1, <1>2, <1>3, <1>4, <1>5, <1>6, <1>7, <1>8 DEF IInv

(* Run fails before the cancel. *)
LEMMA ServerFailsIInv == ASSUME IInv, ServerFails PROVE IInv'
<1>1. TypeOK'
  BY DEF ServerFails, Contract!Return, IInv, TypeOK, Over, Running, Contract!Outcomes
<1>2. RunInv'
  BY DEF ServerFails, Contract!Return, RunInv
<1>3. RoutedInv'
  BY DEF ServerFails, Contract!Return, IInv, RoutedInv
<1>4. AgeInv'
  BY DEF ServerFails, Contract!Return, IInv, AgeInv, Running
<1>5. ExitInv'
  BY DEF ServerFails, Contract!Return, IInv, ExitInv, Over, Off
<1>6. NoCallCut'
  BY DEF ServerFails, IInv, ExitInv, NoCallCut, Over
<1>7. NoCallRefused'
  BY DEF ServerFails, IInv, RunInv, NoCallRefused
<1>8. SpansExported'
  BY DEF ServerFails, SpansExported
<1> QED
  BY <1>1, <1>2, <1>3, <1>4, <1>5, <1>6, <1>7, <1>8 DEF IInv

(* What is cut and what is exported was settled when Run returned. *)
LEMMA ExitIInv == ASSUME IInv, Exit PROVE IInv'
<1>1. TypeOK'
  BY DEF Exit, CutShort, IInv, TypeOK, Over, runVars
<1>2. RunInv'
  BY DEF Exit, IInv, RunInv, runVars
<1>3. RoutedInv'
  BY DEF Exit, IInv, RoutedInv
<1>4. AgeInv'
  BY DEF Exit, CutShort, IInv, AgeInv, Running
<1>5. ExitInv'
  BY DEF Exit, IInv, RunInv, ExitInv, Over, Off
<1>6. NoCallCut'
  BY DEF Exit, CutShort, IInv, RunInv, AgeInv, ExitInv, NoCallCut, Running, GraceGiven, runVars
<1>7. NoCallRefused'
  BY DEF Exit, CutShort, IInv, NoCallRefused, runVars
<1>8. SpansExported'
  BY DEF Exit, CutShort, IInv, ExitInv, SpansExported, Answered, runVars
<1> QED
  BY <1>1, <1>2, <1>3, <1>4, <1>5, <1>6, <1>7, <1>8 DEF IInv

(* A probe routes calls to the server only while it is ready, so before any *)
(* SIGTERM, and never finds it dead.                                       *)
LEMMA ProbeIInv == ASSUME IInv, Probe PROVE IInv'
<1>1. TypeOK'
  BY DEF Probe, IInv, TypeOK, Running, runVars
<1>2. RunInv'
  BY DEF Probe, Get, IInv, TypeOK, RunInv, runVars, Listening
<1>3. RoutedInv'
  BY DEF Probe, Get, Mount, Readiness, IInv, TypeOK, RunInv, RoutedInv, runVars, Listening
<1>4. AgeInv'
  BY DEF Probe, IInv, AgeInv, Running, GraceGiven, runVars
<1>5. ExitInv'
  BY DEF Probe, IInv, ExitInv, Running, Answered, GraceGiven, runVars
<1>6. NoCallCut'
  BY DEF Probe, IInv, NoCallCut, GraceGiven, runVars
<1>7. NoCallRefused'
  BY DEF Probe, Get, Mount, Liveness, IInv, TypeOK, RunInv, NoCallRefused, Listening, runVars
<1>8. SpansExported'
  BY DEF Probe, SpansExported, Over
<1> QED
  BY <1>1, <1>2, <1>3, <1>4, <1>5, <1>6, <1>7, <1>8 DEF IInv

(* The platform's kill excuses every call it cuts. *)
LEMMA KillIInv == ASSUME IInv, Kill PROVE IInv'
<1>1. TypeOK'
  BY DEF Kill, CutShort, IInv, TypeOK, Over, runVars
<1>2. RunInv'
  BY DEF Kill, RunInv
<1>3. RoutedInv'
  BY DEF Kill, IInv, RoutedInv
<1>4. AgeInv'
  BY DEF Kill, CutShort, IInv, AgeInv, Running
<1>5. ExitInv'
  BY DEF Kill, CutShort, IInv, ExitInv, Answered, Over
<1>6. NoCallCut'
  BY DEF Kill, NoCallCut
<1>7. NoCallRefused'
  BY DEF Kill, CutShort, IInv, NoCallRefused, runVars
<1>8. SpansExported'
  BY DEF Kill, SpansExported
<1> QED
  BY <1>1, <1>2, <1>3, <1>4, <1>5, <1>6, <1>7, <1>8 DEF IInv

(* The clocks of one call, of the stop and of the probes go together, and  *)
(* none passes what is due at it.                                          *)
LEMMA TickIInv == ASSUME IInv, Tick PROVE IInv'
<1>1. TypeOK'
  BY TimesAssumption DEF Tick, NothingDue, IInv, TypeOK, Running, runVars, RunInv
<1>2. RunInv'
  BY DEF Tick, NothingDue, IInv, TypeOK, RunInv, Off, runVars
<1>3. RoutedInv'
  BY DEF Tick, IInv, TypeOK, RoutedInv, runVars
<1>4. AgeInv'
  BY TimesAssumption DEF Tick, NothingDue, IInv, TypeOK, AgeInv, Running, GraceGiven, runVars,
         Off
<1>5. ExitInv'
  BY DEF Tick, IInv, RunInv, ExitInv, Running, Answered, GraceGiven, Over, runVars, Off
<1>6. NoCallCut'
  BY DEF Tick, IInv, ExitInv, NoCallCut
<1>7. NoCallRefused'
  BY DEF Tick, IInv, NoCallRefused, runVars
<1>8. SpansExported'
  BY DEF Tick, SpansExported, Over
<1> QED
  BY <1>1, <1>2, <1>3, <1>4, <1>5, <1>6, <1>7, <1>8 DEF IInv

(* A call is refused only where none should have been routed. *)
LEMMA ArrivesIInv == ASSUME IInv, NEW c \in Calls, Arrives(c) PROVE IInv'
<1>1. TypeOK'
  BY DEF Arrives, Contract!Arrive, IInv, TypeOK, Running, runVars
<1>2. RunInv'
  BY DEF Arrives, Contract!Arrive, IInv, RunInv, runVars
<1>3. RoutedInv'
  BY DEF Arrives, IInv, RunInv, RoutedInv, runVars, Listening
<1>4. AgeInv'
  BY TimesAssumption DEF Arrives, IInv, TypeOK, RunInv, AgeInv, Running, GraceGiven, runVars,
         Listening
<1>5. ExitInv'
  BY DEF Arrives, IInv, TypeOK, RunInv, ExitInv, Running, Answered, GraceGiven, runVars,
         Listening
<1>6. NoCallCut'
  BY DEF Arrives, IInv, TypeOK, ExitInv, NoCallCut
<1>7. NoCallRefused'
  BY DEF Arrives, IInv, TypeOK, RunInv, RoutedInv, NoCallRefused, Listening, Over, runVars
<1>8. SpansExported'
  BY DEF Arrives, SpansExported, Over
<1> QED
  BY <1>1, <1>2, <1>3, <1>4, <1>5, <1>6, <1>7, <1>8 DEF IInv

(* A call that Run has waited for ends while the tracer provider is up. *)
LEMMA AnswerIInv == ASSUME IInv, NEW c \in Calls, Answer(c) PROVE IInv'
<1>1. TypeOK'
  BY DEF Answer, Contract!Depart, IInv, TypeOK, Running
<1>2. RunInv'
  BY DEF Answer, Contract!Depart, IInv, RunInv
<1>3. RoutedInv'
  BY DEF Answer, Contract!Depart, IInv, RoutedInv
<1>4. AgeInv'
  BY DEF Answer, Contract!Depart, IInv, AgeInv, Running, GraceGiven
<1>5. ExitInv'
  BY DEF Answer, Contract!Depart, IInv, TypeOK, ExitInv, Running, Answered, GraceGiven
<1>6. NoCallCut'
  BY DEF Answer, IInv, ExitInv, NoCallCut
<1>7. NoCallRefused'
  BY DEF Answer, Contract!Depart, IInv, NoCallRefused
<1>8. SpansExported'
  BY DEF Answer, SpansExported, Over
<1> QED
  BY <1>1, <1>2, <1>3, <1>4, <1>5, <1>6, <1>7, <1>8 DEF IInv

LEMMA NextIInv == ASSUME IInv, [Next]_vars PROVE IInv'
<1>1. CASE EnterRun \/ WarmedUp \/ Sigterm \/ Cancel \/ CloseServer
  BY <1>1, EnterRunIInv, WarmedUpIInv, SigtermIInv, CancelIInv, CloseServerIInv
<1>2. CASE RunReturns \/ ServerFails \/ Exit
  BY <1>2, RunReturnsIInv, ServerFailsIInv, ExitIInv
<1>3. CASE Probe \/ Kill \/ Tick
  BY <1>3, ProbeIInv, KillIInv, TickIInv
<1>4. CASE \E c \in Calls : Arrives(c) \/ Answer(c)
  BY <1>4, ArrivesIInv, AnswerIInv
<1>5. CASE Ended \/ UNCHANGED vars
  BY <1>5, StutterIInv DEF Ended
<1> QED
  BY <1>1, <1>2, <1>3, <1>4, <1>5 DEF Next

(* The invariant holds in every reachable state. *)
THEOREM Invariance == Spec => []IInv
  BY InitIInv, NextIInv, PTL DEF Spec

(* Every variable keeps its type, Run holds just the calls that run, and a *)
(* server that was told to stop is never ready again.                      *)
THEOREM TypeCorrect == Spec => []TypeOK
<1>1. IInv => TypeOK  BY DEF IInv
<1> QED
  BY Invariance, <1>1, PTL

(* httpx.go:11-15, 43-46: the exit cuts a call off only after a failure of *)
(* the server, a grace that is no longer than a call may take, or a kill.  *)
THEOREM NoCallIsCut == Spec => []NoCallCut
<1>1. IInv => NoCallCut  BY DEF IInv
<1> QED
  BY Invariance, <1>1, PTL

(* health.go:8-10, 17-19: a server that warms up is not restarted, and one *)
(* that stays up for a probe's period turns no caller away.                *)
THEOREM NoCallIsRefused == Spec => []NoCallRefused
<1>1. IInv => NoCallRefused  BY DEF IInv
<1> QED
  BY Invariance, <1>1, PTL

(* tracing.go:104-110, README.md: a tracer shut down after Run exports the *)
(* span of every call that Run has waited for.                             *)
THEOREM SpansAreExported == Spec => []SpansExported
<1>1. IInv => SpansExported  BY DEF IInv
<1> QED
  BY Invariance, <1>1, PTL
=============================================================================
