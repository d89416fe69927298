-------------------------- MODULE SignalInitProofs --------------------------
(***************************************************************************)
(* What holds of the three Inits for any number of calls, in any order,    *)
(* with any environment and any step failing: the inductive invariant IInv *)
(* of SignalInit and the properties that follow from it.                   *)
(***************************************************************************)
EXTENDS SignalInit, SequenceTheorems, TLAPS

PipelineRecord == [signal : Signals, state : States]

(* A pipeline that is added comes last and leaves the others alone. *)
LEMMA AddPipeline ==
  ASSUME NEW ps \in Seq(PipelineRecord), NEW new \in PipelineRecord
  PROVE  /\ Append(ps, new) \in Seq(PipelineRecord)
         /\ Len(Append(ps, new)) = Len(ps) + 1
         /\ Append(ps, new)[Len(ps) + 1] = new
         /\ \A p \in 1..Len(ps) : Append(ps, new)[p] = ps[p]
  OBVIOUS

(* A pipeline that changes state keeps its signal, the others stay. *)
LEMMA SetPipeline ==
  ASSUME pipelines \in Seq(PipelineRecord), NEW p \in Pipelines, NEW state \in States,
         SetState(p, state)
  PROVE  /\ pipelines' \in Seq(PipelineRecord)
         /\ Len(pipelines') = Len(pipelines)
         /\ pipelines'[p] = [signal |-> pipelines[p].signal, state |-> state]
         /\ \A q \in Pipelines : q # p => pipelines'[q] = pipelines[q]
<1> DEFINE new == [signal |-> pipelines[p].signal, state |-> state]
<1>1. pipelines[p] \in PipelineRecord
  BY DEF Pipelines
<1>2. [pipelines[p] EXCEPT !.state = state] = new
  BY <1>1 DEF PipelineRecord
<1>3. new \in PipelineRecord
  BY <1>1 DEF PipelineRecord
<1>4. pipelines' = [pipelines EXCEPT ![p] = [pipelines[p] EXCEPT !.state = state]]
  BY Zenon DEF SetState
<1>5. pipelines' = [pipelines EXCEPT ![p] = new]
  BY <1>2, <1>4, Zenon
<1> HIDE DEF new
<1>6. /\ pipelines' \in Seq(PipelineRecord) /\ Len(pipelines') = Len(pipelines) /\ pipelines'[p] = new
      /\ \A q \in Pipelines : q # p => pipelines'[q] = pipelines[q]
  BY <1>3, <1>5 DEF Pipelines
<1> QED
  BY <1>6 DEF new

(* A Shutdown that is deferred comes last, the others keep their places. *)
LEMMA DeferOne ==
  ASSUME NEW S, NEW ds \in Seq(S), NEW p \in S
  PROVE  /\ Append(ds, p) \in Seq(S)
         /\ Len(Append(ds, p)) = Len(ds) + 1
         /\ Append(ds, p)[Len(ds) + 1] = p
         /\ \A i \in 1..Len(ds) : Append(ds, p)[i] = ds[i]
  OBVIOUS

(* Running the latest Shutdown leaves the earlier ones. *)
LEMMA DropLast ==
  ASSUME NEW S, NEW ds \in Seq(S), ds # <<>>
  PROVE  /\ Len(ds) \in Nat \ {0} /\ ds[Len(ds)] \in S
         /\ SubSeq(ds, 1, Len(ds) - 1) \in Seq(S)
         /\ Len(SubSeq(ds, 1, Len(ds) - 1)) = Len(ds) - 1
         /\ \A i \in 1..(Len(ds) - 1) : SubSeq(ds, 1, Len(ds) - 1)[i] = ds[i]
<1>1. Len(ds) \in Nat \ {0} /\ \A i \in 1..Len(ds) : ds[i] \in S
  OBVIOUS
<1>2. \A i \in 1..(Len(ds) - 1) : ds[i] \in S
  BY <1>1
<1> DEFINE n == Len(ds) - 1
<1>3. n \in Nat /\ \A i \in 1..n : ds[i] \in S
  BY <1>1, <1>2
<1> HIDE DEF n
<1>4. /\ SubSeq(ds, 1, n) \in Seq(S)
      /\ Len(SubSeq(ds, 1, n)) = IF 1 <= n THEN n - 1 + 1 ELSE 0
      /\ \A i \in 1..(n - 1 + 1) : SubSeq(ds, 1, n)[i] = ds[1 + i - 1]
  BY <1>3, SubSeqProperties
<1>5. /\ Len(SubSeq(ds, 1, n)) = n
      /\ \A i \in 1..n : SubSeq(ds, 1, n)[i] = ds[i]
  BY <1>3, <1>4
<1> QED
  BY <1>1, <1>4, <1>5 DEF n

LEMMA MoreDeferrable ==
  ASSUME NEW m \in Nat, NEW ds \in Seq(0..m) PROVE ds \in Seq(0..(m + 1))
  OBVIOUS

-----------------------------------------------------------------------------
LEMMA InitIInv == Init => IInv
<1> SUFFICES ASSUME Init PROVE IInv
  OBVIOUS
<1>1. TypeOK
  <2>1. pipelines \in Seq([signal : Signals, state : States]) /\ Len(pipelines) = 0
    BY EmptySeq DEF Init
  <2>2. deferred \in Seq(0..Len(pipelines))
    BY EmptySeq DEF Init
  <2>3. global \in [Signals -> 0..Len(pipelines)]
    BY <2>1 DEF Init
  <2>4. /\ env \subseteq EnvVars /\ program = "running" /\ pc = "out" /\ signal = "none"
        /\ propagator \in BOOLEAN /\ returned = "none"
    BY DEF Init
  <2> QED
    BY <2>1, <2>2, <2>3, <2>4 DEF TypeOK
<1>2. PlaceInv /\ MakingInv /\ OwnerInv /\ GlobalExports
  BY DEF Init, PlaceInv, MakingInv, OwnerInv, GlobalExports, Pipelines, Signals
<1>3. HeldInv /\ TraceInv
  BY DEF Init, HeldInv, TraceInv
<1> QED
  BY <1>1, <1>2, <1>3 DEF IInv

LEMMA StutterIInv == ASSUME IInv, UNCHANGED vars PROVE IInv'
  BY DEF vars, otel, IInv, TypeOK, PlaceInv, MakingInv, OwnerInv, GlobalExports, HeldInv, TraceInv,
         Pipelines, Current, Live, Deferred

(* The pipeline an Init is making is the newest; no global provider and no *)
(* other Init's pipeline is it.                                            *)
LEMMA Making ==
  ASSUME IInv, pc \in {"resource", "provider"}
  PROVE  /\ Current \in Pipelines /\ Current \in Nat
         /\ pipelines[Current] = [signal |-> signal, state |-> "exporter"]
         /\ program = "running" /\ signal \in Signals
         /\ \A s \in Signals : global[s] # Current
         /\ \A i \in 1..Len(deferred) : deferred[i] # Current
<1>1. Len(pipelines) \in Nat
  BY DEF IInv, TypeOK
<1>2. Current \in Pipelines
  BY <1>1 DEF IInv, MakingInv, Pipelines, Current
<1>3. /\ pipelines[Current] = [signal |-> signal, state |-> "exporter"]
      /\ program = "running" /\ signal \in Signals
  BY DEF IInv, MakingInv, PlaceInv
<1>4. ASSUME NEW s \in Signals, global[s] = Current PROVE FALSE
  <2>1. global[s] # 0
    BY <1>1, <1>2, <1>4 DEF Pipelines
  <2>2. pipelines[global[s]] = [signal |-> s, state |-> "provider"]
    BY <1>3, <2>1 DEF IInv, GlobalExports
  <2>3. pipelines[Current].state = "provider" /\ pipelines[Current].state = "exporter"
    BY <1>3, <1>4, <2>2
  <2> QED
    BY <2>3
<1>5. \A i \in 1..Len(deferred) : deferred[i] # Current
  BY <1>1, <1>2, <1>3 DEF IInv, HeldInv, Pipelines
<1> QED
  BY <1>1, <1>2, <1>3, <1>4, <1>5 DEF Current

(* Deferring one more Shutdown, the no-op one included, forgets none. *)
LEMMA DeferKeeps ==
  ASSUME IInv, NEW d \in 0..Len(pipelines), deferred' = Append(deferred, d), pipelines' = pipelines
  PROVE  /\ deferred' \in Seq(0..Len(pipelines)) /\ Deferred(d)'
         /\ Len(deferred) \in Nat /\ Len(deferred') = Len(deferred) + 1
         /\ deferred'[Len(deferred) + 1] = d
         /\ \A i \in 1..Len(deferred) : deferred'[i] = deferred[i]
         /\ \A p \in Pipelines : Deferred(p) => Deferred(p)'
<1>1. deferred \in Seq(0..Len(pipelines))
  BY DEF IInv, TypeOK
<1>2. /\ Append(deferred, d) \in Seq(0..Len(pipelines))
      /\ Len(Append(deferred, d)) = Len(deferred) + 1 /\ Len(deferred) \in Nat
      /\ Append(deferred, d)[Len(deferred) + 1] = d
      /\ \A i \in 1..Len(deferred) : Append(deferred, d)[i] = deferred[i]
  BY <1>1, DeferOne
<1> QED
  BY <1>2 DEF Deferred

(* A step that makes nothing, changes no pipeline and defers at most the   *)
(* Shutdown that does nothing.                                             *)
LEMMA QuietStep ==
  ASSUME IInv, TypeOK', PlaceInv', TraceInv', UNCHANGED <<pipelines, global>>,
         pc' \notin {"resource", "provider"}, pc \notin {"resource", "provider"},
         deferred' = deferred \/ deferred' = Append(deferred, 0),
         program' = "running" => program = "running"
  PROVE  IInv'
<1>1. MakingInv'
  BY DEF MakingInv
<1>2. (\A p \in Pipelines : Deferred(p) => Deferred(p)') /\ HeldInv'
  <2>1. CASE deferred' = deferred
    BY <2>1 DEF IInv, Deferred, HeldInv
  <2>2. CASE deferred' = Append(deferred, 0)
    <3>1. 0 \in 0..Len(pipelines)
      BY DEF IInv, TypeOK
    <3>2. /\ Len(deferred) \in Nat /\ Len(deferred') = Len(deferred) + 1
          /\ deferred'[Len(deferred) + 1] = 0
          /\ \A i \in 1..Len(deferred) : deferred'[i] = deferred[i]
          /\ \A p \in Pipelines : Deferred(p) => Deferred(p)'
      BY <2>2, <3>1, DeferKeeps
    <3> QED
      BY <3>2 DEF IInv, HeldInv
  <2> QED
    BY <2>1, <2>2
<1>3. OwnerInv'
  BY <1>2 DEF IInv, OwnerInv, Pipelines, Live, Current
<1>4. GlobalExports'
  BY DEF IInv, GlobalExports
<1> QED
  BY <1>1, <1>2, <1>3, <1>4 DEF IInv

(* The first step of an Init, whatever the signal. *)
LEMMA StartIInv ==
  ASSUME IInv, pc = "out", program = "running", before' = Found,
         signal' \in Signals, UNCHANGED <<env, pipelines, global>>,
         propagator' \in BOOLEAN, signal' = "traces" => propagator',
         \/ pc' = "exporter" /\ UNCHANGED <<program, deferred, returned>>
         \/ ReturnNoop
         \/ /\ returned' = "error" /\ program' \in {"running", "leaving"}
            /\ UNCHANGED <<pc, deferred>>
  PROVE  IInv'
<1>1. 0 \in 0..Len(pipelines) /\ Len(pipelines) \in Nat
  BY DEF IInv, TypeOK
<1>2. CASE ReturnNoop
  <2>1. deferred' \in Seq(0..Len(pipelines)) /\ deferred' = Append(deferred, 0)
    BY <1>1, <1>2, DeferKeeps DEF ReturnNoop
  <2>2. TypeOK'
    BY <1>2, <2>1 DEF IInv, TypeOK, ReturnNoop
  <2>3. PlaceInv' /\ TraceInv'
    BY <1>2 DEF IInv, PlaceInv, ReturnNoop, TraceInv
  <2> QED
    BY <1>2, <2>1, <2>2, <2>3, QuietStep DEF ReturnNoop
<1>3. CASE ~ReturnNoop
  <2>1. /\ deferred' = deferred /\ pc' \in {"out", "exporter"}
        /\ program' \in {"running", "leaving"} /\ returned' \in {returned, "error"}
        /\ pc' # "out" => program' = "running"
    BY <1>3
  <2>2. TypeOK'
    BY <2>1 DEF IInv, TypeOK
  <2>3. PlaceInv'
    BY <2>1 DEF IInv, PlaceInv
  <2>4. TraceInv'
    BY <2>1 DEF TraceInv, Found, Pipelines, Live, Current
  <2> QED
    BY <2>1, <2>2, <2>3, <2>4, QuietStep
<1> QED
  BY <1>2, <1>3

LEMMA InitsIInv ==
  ASSUME IInv, TracingInit \/ MetricsInit \/ (\E mirror \in BOOLEAN : LoggingInit(mirror))
  PROVE  IInv'
<1>1. CASE TracingInit
  BY <1>1, StartIInv DEF TracingInit, MayInit, Signals
<1>2. CASE MetricsInit
  <2>1. propagator' \in BOOLEAN  BY <1>2 DEF MetricsInit, otel, IInv, TypeOK
  <2> QED
    BY <1>2, <2>1, StartIInv DEF MetricsInit, MayInit, Signals, otel
<1>3. ASSUME NEW mirror \in BOOLEAN, LoggingInit(mirror) PROVE IInv'
  <2>1. propagator' \in BOOLEAN  BY <1>3 DEF LoggingInit, otel, IInv, TypeOK
  <2> QED
    BY <1>3, <2>1, StartIInv DEF LoggingInit, MayInit, Signals, otel
<1> QED
  BY <1>1, <1>2, <1>3

(* A failed Init, after its exporter step, closes what it made. *)
LEMMA FailReleases ==
  ASSUME IInv, pc = "resource", Fail, ReleaseUnowned PROVE IInv'
<1>1. /\ pc' = "out" /\ returned' = "error" /\ program' \in {"running", "leaving"}
      /\ UNCHANGED <<env, signal, global, propagator, deferred, before>>
  BY DEF Fail
<1>2. /\ Current \in Pipelines /\ Current \in Nat /\ program = "running"
      /\ \A s \in Signals : global[s] # Current
      /\ \A i \in 1..Len(deferred) : deferred[i] # Current
  BY Making
<1>3. pipelines \in Seq(PipelineRecord)
  BY DEF IInv, TypeOK, PipelineRecord
<1>4. /\ pipelines' \in Seq(PipelineRecord) /\ Len(pipelines') = Len(pipelines)
      /\ pipelines'[Current].state = "closed"
      /\ \A q \in Pipelines : q # Current => pipelines'[q] = pipelines[q]
  <2>1. SetState(Current, "closed") /\ "closed" \in States
    BY DEF ReleaseUnowned, States
  <2>2. /\ pipelines' \in Seq(PipelineRecord) /\ Len(pipelines') = Len(pipelines)
        /\ pipelines'[Current] = [signal |-> pipelines[Current].signal, state |-> "closed"]
        /\ \A q \in Pipelines : q # Current => pipelines'[q] = pipelines[q]
    BY <1>2, <1>3, <2>1, SetPipeline, Zenon
  <2> QED
    BY <2>2
<1>5. TypeOK'
  BY <1>1, <1>4 DEF IInv, TypeOK, PipelineRecord
<1>6. PlaceInv' /\ MakingInv'
  BY <1>1 DEF IInv, PlaceInv, MakingInv
<1>7. OwnerInv'
  <2> SUFFICES ASSUME NEW p \in Pipelines
               PROVE  ~Live(p)' \/ (pipelines'[p].state = "provider" /\ Deferred(p)')
    BY <1>4 DEF OwnerInv, Pipelines
  <2>1. CASE p = Current
    BY <1>4, <2>1 DEF Live
  <2>2. CASE p # Current
    BY <1>1, <1>4, <2>2 DEF IInv, OwnerInv, Live, Deferred
  <2> QED
    BY <2>1, <2>2
<1>8. GlobalExports'
  <2> SUFFICES ASSUME NEW s \in Signals, global[s] # 0
               PROVE  pipelines'[global[s]] = [signal |-> s, state |-> "provider"]
    BY <1>1 DEF GlobalExports
  <2>1. global[s] \in Pipelines
    BY <1>3 DEF IInv, TypeOK, Pipelines
  <2> QED
    BY <1>2, <1>4, <2>1 DEF IInv, GlobalExports
<1>9. HeldInv'
  <2> SUFFICES ASSUME NEW i \in 1..Len(deferred), deferred[i] # 0
               PROVE  pipelines'[deferred[i]] = pipelines[deferred[i]]
    BY <1>1 DEF IInv, HeldInv
  <2>1. deferred[i] \in Pipelines
    BY <1>3 DEF IInv, TypeOK, Pipelines
  <2> QED
    BY <1>2, <1>4, <2>1
<1>10. TraceInv'
  <2>1. /\ global = before.global /\ deferred = before.held
        /\ before.live = {p \in Pipelines : Live(p) /\ p # Current}
        /\ before = [global |-> before.global, live |-> before.live, held |-> before.held]
    BY <1>2 DEF IInv, TraceInv
  <2>2. {p \in Pipelines : Live(p) /\ p # Current} = {p \in Pipelines : Live(p)'}
    BY <1>4 DEF Live
  <2>3. Pipelines' = Pipelines
    BY <1>4 DEF Pipelines
  <2> QED
    BY <1>1, <2>1, <2>2, <2>3 DEF TraceInv
<1> QED
  BY <1>5, <1>6, <1>7, <1>8, <1>9, <1>10 DEF IInv

LEMMA NewExporterIInv == ASSUME IInv, NewExporter PROVE IInv'
<1> DEFINE new == [signal |-> signal, state |-> "exporter"]
<1>1. signal \in Signals /\ program = "running" /\ pc = "exporter"
  BY DEF NewExporter, IInv, PlaceInv
<1>2. CASE Fail /\ UNCHANGED pipelines
  <2>1. TypeOK'
    BY <1>2 DEF Fail, IInv, TypeOK
  <2>2. PlaceInv'
    BY <1>1, <1>2 DEF Fail, IInv, PlaceInv
  <2>3. TraceInv'
    BY <1>1, <1>2 DEF Fail, IInv, TraceInv, Pipelines, Live
  <2> QED
    BY <1>1, <1>2, <2>1, <2>2, <2>3, QuietStep DEF Fail
<1>3. CASE /\ pipelines' = Append(pipelines, new) /\ pc' = "resource"
           /\ UNCHANGED <<env, program, signal, global, propagator, deferred, returned, before>>
  <2>1. pipelines \in Seq(PipelineRecord) /\ new \in PipelineRecord /\ Len(pipelines) \in Nat
    BY <1>1 DEF IInv, TypeOK, PipelineRecord, States
  <2>2. /\ pipelines' \in Seq(PipelineRecord) /\ Len(pipelines') = Len(pipelines) + 1
        /\ pipelines'[Len(pipelines) + 1] = new
        /\ \A p \in 1..Len(pipelines) : pipelines'[p] = pipelines[p]
    BY <1>3, <2>1, AddPipeline
  <2>3. TypeOK'
    <3>1. deferred' \in Seq(0..Len(pipelines'))
      BY <1>3, <2>1, <2>2, MoreDeferrable DEF IInv, TypeOK
    <3>2. global' \in [Signals -> 0..Len(pipelines')]
      BY <1>3, <2>1, <2>2 DEF IInv, TypeOK
    <3> QED
      BY <1>3, <2>2, <3>1, <3>2 DEF IInv, TypeOK, PipelineRecord
  <2>4. PlaceInv'
    BY <1>1, <1>3 DEF IInv, PlaceInv
  <2>5. MakingInv'
    BY <1>3, <2>1, <2>2 DEF MakingInv, Pipelines, Current
  <2>6. OwnerInv'
    <3> SUFFICES ASSUME NEW p \in 1..Len(pipelines), Live(p)
                 PROVE  pipelines[p].state = "provider" /\ Deferred(p)
      BY <1>3, <2>1, <2>2 DEF OwnerInv, Pipelines, Current, Live, Deferred
    <3> QED
      BY <1>1 DEF IInv, OwnerInv, Pipelines
  <2>7. GlobalExports'
    <3> SUFFICES ASSUME NEW s \in Signals, global[s] # 0
                 PROVE  pipelines'[global[s]] = [signal |-> s, state |-> "provider"]
      BY <1>3 DEF GlobalExports
    <3>1. global[s] \in 1..Len(pipelines)
      BY <2>1 DEF IInv, TypeOK
    <3> QED
      BY <1>1, <2>2, <3>1 DEF IInv, GlobalExports
  <2>8. HeldInv'
    <3> SUFFICES ASSUME NEW i \in 1..Len(deferred), deferred[i] # 0
                 PROVE  pipelines'[deferred[i]] = pipelines[deferred[i]]
      BY <1>3 DEF IInv, HeldInv
    <3>1. deferred[i] \in 1..Len(pipelines)
      BY <2>1 DEF IInv, TypeOK
    <3> QED
      BY <2>2, <3>1
  <2>9. TraceInv'
    <3>1. /\ global = before.global /\ deferred = before.held
          /\ before.live = {p \in Pipelines : Live(p)}
          /\ before = [global |-> before.global, live |-> before.live, held |-> before.held]
      BY <1>1 DEF IInv, TraceInv
    <3>2. Current' = Len(pipelines) + 1 /\ Pipelines' = 1..(Len(pipelines) + 1)
      BY <2>2 DEF Current, Pipelines
    <3>3. \A p \in Pipelines' : p # Current' => p \in Pipelines /\ (Live(p)' <=> Live(p))
      BY <2>1, <2>2, <3>2 DEF Pipelines, Live
    <3>4. \A p \in Pipelines : p \in Pipelines' /\ p # Current'
      BY <2>1, <3>2 DEF Pipelines
    <3>5. {p \in Pipelines : Live(p)} = {p \in Pipelines' : Live(p)' /\ p # Current'}
      BY <3>3, <3>4
    <3> QED
      BY <1>3, <3>1, <3>5 DEF TraceInv
  <2> QED
    BY <2>3, <2>4, <2>5, <2>6, <2>7, <2>8, <2>9 DEF IInv
<1> QED
  BY <1>2, <1>3 DEF NewExporter

LEMMA BuildIInv == ASSUME IInv, NEW err, Build(err) PROVE IInv'
<1>1. CASE Fail /\ ReleaseUnowned
  BY <1>1, FailReleases DEF Build
<1>2. CASE pc' = "provider" /\ UNCHANGED <<env, program, signal, otel, deferred, returned, before>>
  <2>1. pc = "resource"
    BY DEF Build
  <2>2. TypeOK' /\ PlaceInv'
    BY <1>2, <2>1 DEF IInv, TypeOK, PlaceInv, otel
  <2>3. MakingInv' /\ OwnerInv' /\ GlobalExports'
    BY <1>2, <2>1 DEF IInv, MakingInv, OwnerInv, GlobalExports, otel, Pipelines, Current, Live, Deferred
  <2>4. HeldInv' /\ TraceInv'
    BY <1>2, <2>1 DEF IInv, HeldInv, TraceInv, otel, Pipelines, Current, Live
  <2> QED
    BY <2>2, <2>3, <2>4 DEF IInv
<1> QED
  BY <1>1, <1>2 DEF Build

LEMMA InstallIInv == ASSUME IInv, NEW s \in Signals, InstallProvider(s) PROVE IInv'
<1>1. /\ pc = "provider" /\ pc' = "out" /\ signal = s /\ returned' = "pipeline"
      /\ global' = [global EXCEPT ![s] = Current]
      /\ deferred' = Append(deferred, Current)
      /\ UNCHANGED <<env, program, signal, propagator>>
  BY DEF InstallProvider, ReturnPipeline
<1>2. /\ Current \in Pipelines /\ Current \in Nat /\ program = "running"
      /\ pipelines[Current] = [signal |-> s, state |-> "exporter"]
      /\ \A t \in Signals : global[t] # Current
      /\ \A i \in 1..Len(deferred) : deferred[i] # Current
  BY <1>1, Making
<1>3. pipelines \in Seq(PipelineRecord) /\ Len(pipelines) \in Nat
      /\ deferred \in Seq(0..Len(pipelines)) /\ Len(deferred) \in Nat
  BY DEF IInv, TypeOK, PipelineRecord
<1>4. /\ pipelines' \in Seq(PipelineRecord) /\ Len(pipelines') = Len(pipelines)
      /\ pipelines'[Current] = [signal |-> s, state |-> "provider"]
      /\ \A q \in Pipelines : q # Current => pipelines'[q] = pipelines[q]
  <2>1. SetState(Current, "provider") /\ "provider" \in States
    BY DEF InstallProvider, Own, States
  <2>2. /\ pipelines' \in Seq(PipelineRecord) /\ Len(pipelines') = Len(pipelines)
        /\ pipelines'[Current] = [signal |-> pipelines[Current].signal, state |-> "provider"]
        /\ \A q \in Pipelines : q # Current => pipelines'[q] = pipelines[q]
    BY <1>2, <1>3, <2>1, SetPipeline, Zenon
  <2> QED
    BY <1>2, <2>2
<1>5. /\ deferred' \in Seq(0..Len(pipelines)) /\ Len(deferred') = Len(deferred) + 1
      /\ deferred'[Len(deferred) + 1] = Current
      /\ \A i \in 1..Len(deferred) : deferred'[i] = deferred[i]
  <2>1. Current \in 0..Len(pipelines)
    BY <1>2 DEF Pipelines
  <2> QED
    BY <1>1, <1>3, <2>1, DeferOne
<1>6. TypeOK'
  <2>1. global' \in [Signals -> 0..Len(pipelines')]
    BY <1>1, <1>2, <1>3, <1>4 DEF IInv, TypeOK, Pipelines
  <2> QED
    BY <1>1, <1>4, <1>5, <2>1 DEF IInv, TypeOK, PipelineRecord
<1>7. PlaceInv' /\ MakingInv'
  BY <1>1, <1>2 DEF IInv, PlaceInv, MakingInv
<1>8. OwnerInv'
  <2> SUFFICES ASSUME NEW p \in Pipelines
               PROVE  ~Live(p)' \/ (pipelines'[p].state = "provider" /\ Deferred(p)')
    BY <1>4 DEF OwnerInv, Pipelines
  <2>1. CASE p = Current
    BY <1>3, <1>4, <1>5, <2>1 DEF Deferred
  <2>2. CASE p # Current
    <3>1. ~Live(p) \/ (pipelines[p].state = "provider" /\ Deferred(p))
      BY <2>2 DEF IInv, OwnerInv
    <3>2. Deferred(p) => Deferred(p)'
      BY <1>3, <1>5 DEF Deferred
    <3> QED
      BY <1>4, <2>2, <3>1, <3>2 DEF Live
  <2> QED
    BY <2>1, <2>2
<1>9. GlobalExports'
  <2> SUFFICES ASSUME NEW t \in Signals, global'[t] # 0
               PROVE  pipelines'[global'[t]] = [signal |-> t, state |-> "provider"]
    BY DEF GlobalExports
  <2>1. CASE t = s
    BY <1>1, <1>4, <2>1 DEF IInv, TypeOK
  <2>2. CASE t # s
    <3>1. global'[t] = global[t] /\ global[t] \in Pipelines
      BY <1>1, <1>3, <2>2 DEF IInv, TypeOK, Pipelines
    <3> QED
      BY <1>2, <1>4, <3>1 DEF IInv, GlobalExports
  <2> QED
    BY <2>1, <2>2
<1>10. HeldInv'
  <2> SUFFICES ASSUME NEW i \in 1..Len(deferred'), deferred'[i] # 0
               PROVE  /\ pipelines'[deferred'[i]].state = "provider"
                      /\ \A j \in 1..Len(deferred') : deferred'[j] = deferred'[i] => j = i
    BY DEF HeldInv
  <2>1. /\ i \in 1..Len(deferred) \/ i = Len(deferred) + 1
        /\ \A j \in 1..Len(deferred') : j \in 1..Len(deferred) \/ j = Len(deferred) + 1
    BY <1>3, <1>5
  <2>2. \A j \in 1..Len(deferred) : deferred'[j] # Current
    BY <1>2, <1>5
  <2>3. CASE i = Len(deferred) + 1
    <3>1. deferred'[i] = Current
      BY <1>5, <2>3
    <3>2. pipelines'[deferred'[i]].state = "provider"
      BY <1>4, <3>1
    <3> QED
      BY <2>1, <2>2, <2>3, <3>1, <3>2
  <2>4. CASE i \in 1..Len(deferred)
    <3>1. deferred'[i] = deferred[i] /\ deferred[i] # Current
      BY <1>2, <1>5, <2>4
    <3>2. deferred[i] \in Pipelines
      <4>1. deferred[i] \in 0..Len(pipelines) /\ deferred[i] # 0
        BY <1>3, <2>4, <3>1
      <4> QED
        BY <1>3, <4>1 DEF Pipelines
    <3>3. /\ pipelines[deferred[i]].state = "provider"
          /\ \A j \in 1..Len(deferred) : deferred[j] = deferred[i] => j = i
      BY <2>4, <3>1 DEF IInv, HeldInv
    <3>4. pipelines'[deferred'[i]].state = "provider"
      BY <1>4, <3>1, <3>2, <3>3
    <3>5. ASSUME NEW j \in 1..Len(deferred'), deferred'[j] = deferred'[i] PROVE j = i
      <4>1. j # Len(deferred) + 1
        BY <1>5, <3>1, <3>5
      <4>2. j \in 1..Len(deferred)
        BY <2>1, <4>1
      <4> QED
        BY <1>5, <3>1, <3>3, <3>5, <4>2
    <3> QED
      BY <3>4, <3>5
  <2> QED
    BY <2>1, <2>3, <2>4
<1>11. TraceInv'
  BY <1>1 DEF TraceInv
<1> QED
  BY <1>6, <1>7, <1>8, <1>9, <1>10, <1>11 DEF IInv

LEMMA RunDeferredIInv == ASSUME IInv, RunDeferred PROVE IInv'
<1> DEFINE p == deferred[Len(deferred)]
<1>1. /\ program = "leaving" /\ program' = "leaving" /\ deferred # <<>> /\ pc = "out" /\ pc' = "out"
      /\ deferred' = SubSeq(deferred, 1, Len(deferred) - 1)
      /\ UNCHANGED <<env, signal, global, propagator, returned>>
  BY DEF RunDeferred, IInv, PlaceInv
<1>2. pipelines \in Seq(PipelineRecord) /\ deferred \in Seq(0..Len(pipelines)) /\ Len(pipelines) \in Nat
  BY DEF IInv, TypeOK, PipelineRecord
<1>3. /\ Len(deferred) \in Nat \ {0} /\ p \in 0..Len(pipelines)
      /\ deferred' \in Seq(0..Len(pipelines)) /\ Len(deferred') = Len(deferred) - 1
      /\ \A i \in 1..(Len(deferred) - 1) : deferred'[i] = deferred[i]
  BY <1>1, <1>2, DropLast
<1>4. /\ pipelines' \in Seq(PipelineRecord) /\ Len(pipelines') = Len(pipelines)
      /\ p # 0 => pipelines'[p].state = "closed"
      /\ \A q \in Pipelines : q # p => pipelines'[q] = pipelines[q]
  <2>1. CASE p = 0
    BY <1>2, <2>1 DEF RunDeferred, Pipelines
  <2>2. CASE p # 0
    <3>1. SetState(p, "closed") /\ p \in Pipelines /\ "closed" \in States
      BY <1>2, <1>3, <2>2 DEF RunDeferred, Pipelines, States
    <3>2. /\ pipelines' \in Seq(PipelineRecord) /\ Len(pipelines') = Len(pipelines)
          /\ pipelines'[p] = [signal |-> pipelines[p].signal, state |-> "closed"]
          /\ \A q \in Pipelines : q # p => pipelines'[q] = pipelines[q]
      BY <1>2, <3>1, SetPipeline, Zenon
    <3> QED
      BY <3>2
  <2> QED
    BY <2>1, <2>2
<1>5. TypeOK'
  BY <1>1, <1>3, <1>4 DEF IInv, TypeOK, PipelineRecord
<1>6. PlaceInv' /\ MakingInv' /\ GlobalExports'
  BY <1>1 DEF IInv, PlaceInv, MakingInv, GlobalExports
<1>7. OwnerInv'
  <2> SUFFICES ASSUME NEW q \in Pipelines
               PROVE  ~Live(q)' \/ (pipelines'[q].state = "provider" /\ Deferred(q)')
    BY <1>4 DEF OwnerInv, Pipelines
  <2>1. CASE q = p
    BY <1>4, <2>1 DEF Live, Pipelines
  <2>2. CASE q # p
    <3>1. ~Live(q) \/ (pipelines[q].state = "provider" /\ Deferred(q))
      BY <1>1 DEF IInv, OwnerInv
    <3>2. Deferred(q) => Deferred(q)'
      BY <1>3, <2>2 DEF Deferred
    <3> QED
      BY <1>4, <2>2, <3>1, <3>2 DEF Live
  <2> QED
    BY <2>1, <2>2
<1>8. HeldInv'
  <2> SUFFICES ASSUME NEW i \in 1..Len(deferred'), deferred'[i] # 0
               PROVE  /\ pipelines'[deferred'[i]].state = "provider"
                      /\ \A j \in 1..Len(deferred') : deferred'[j] = deferred'[i] => j = i
    BY DEF HeldInv
  <2>1. /\ i \in 1..Len(deferred) /\ i # Len(deferred) /\ deferred'[i] = deferred[i]
        /\ Len(deferred) \in 1..Len(deferred)
        /\ \A j \in 1..Len(deferred') : j \in 1..Len(deferred) /\ deferred'[j] = deferred[j]
    BY <1>3
  <2>2. /\ pipelines[deferred[i]].state = "provider"
        /\ \A j \in 1..Len(deferred) : deferred[j] = deferred[i] => j = i
    BY <2>1 DEF IInv, HeldInv
  <2>3. deferred[i] # p
    BY <2>1, <2>2
  <2>4. deferred[i] \in Pipelines
    <3>1. deferred[i] \in 0..Len(pipelines) /\ deferred[i] # 0
      BY <1>2, <2>1
    <3> QED
      BY <1>2, <3>1 DEF Pipelines
  <2>5. pipelines'[deferred[i]] = pipelines[deferred[i]]
    BY <1>4, <2>3, <2>4
  <2> QED
    BY <2>1, <2>2, <2>5
<1>9. TraceInv'
  BY <1>1 DEF TraceInv
<1> QED
  BY <1>5, <1>6, <1>7, <1>8, <1>9 DEF IInv

LEMMA LeaveIInv == ASSUME IInv, Leave \/ Exit PROVE IInv'
<1>1. /\ pc = "out" /\ pc' = "out" /\ program' \in {"leaving", "left"}
      /\ program' = "left" => deferred = <<>>
      /\ UNCHANGED <<env, signal, otel, deferred, returned>>
  BY DEF Leave, Exit, IInv, PlaceInv
<1>2. TypeOK' /\ PlaceInv'
  BY <1>1 DEF IInv, TypeOK, PlaceInv, otel
<1>3. TraceInv'
  BY <1>1 DEF TraceInv
<1> QED
  BY <1>1, <1>2, <1>3, QuietStep DEF otel

LEMMA NextIInv == ASSUME IInv, [Next]_vars PROVE IInv'
<1>1. CASE TracingInit \/ MetricsInit \/ (\E mirror \in BOOLEAN : LoggingInit(mirror))
  BY <1>1, InitsIInv
<1>2. CASE NewExporter  BY <1>2, NewExporterIInv
<1>3. CASE \E err \in {"nil", "partial", "fatal"} : Build(err)  BY <1>3, BuildIInv
<1>4. CASE InstallTracerProvider \/ InstallMeterProvider \/ InstallLoggerProvider
  BY <1>4, InstallIInv DEF InstallTracerProvider, InstallMeterProvider, InstallLoggerProvider, Signals
<1>5. CASE RunDeferred  BY <1>5, RunDeferredIInv
<1>6. CASE Leave \/ Exit  BY <1>6, LeaveIInv
<1>7. CASE UNCHANGED vars  BY <1>7, StutterIInv
<1> QED
  BY <1>1, <1>2, <1>3, <1>4, <1>5, <1>6, <1>7 DEF Next

(* The invariant holds in every reachable state. *)
THEOREM Invariance == Spec => []IInv
  BY InitIInv, NextIInv, PTL DEF Spec

(* Every variable keeps its type: a global provider and a deferred         *)
(* Shutdown always name a pipeline that was made (or none).                *)
THEOREM TypeCorrect == Spec => []TypeOK
<1>1. IInv => TypeOK  BY DEF IInv
<1> QED
  BY Invariance, <1>1, PTL

(* tracing.go:57-60, 91-97, 110, metrics.go:126-132, init.go:122-128: what *)
(* runs between two Inits is what the program has a Shutdown for, each     *)
(* once, however many Inits there were and wherever they failed.           *)
THEOREM NothingOrphaned == Spec => []NoOrphan
<1>1. ASSUME IInv PROVE NoOrphan
  <2>1. pc = "out" => \A p \in Pipelines : Live(p) => pipelines[p].state = "provider" /\ Deferred(p)
    BY <1>1 DEF IInv, OwnerInv
  <2>2. \A i \in 1..Len(deferred) : deferred[i] # 0 =>
          Live(deferred[i]) /\ \A j \in 1..Len(deferred) : deferred[j] = deferred[i] => j = i
    BY <1>1 DEF IInv, HeldInv, Live
  <2> QED
    BY <2>1, <2>2 DEF NoOrphan
<1> QED
  BY Invariance, <1>1, PTL

(* tracing.go:108, metrics.go:156, init.go:139: while the program runs, a  *)
(* global provider exports through a live pipeline of its own signal.      *)
THEOREM GlobalsExport == Spec => []GlobalExports
<1>1. IInv => GlobalExports  BY DEF IInv
<1> QED
  BY Invariance, <1>1, PTL

(* tracing.go:79-81: the propagators outlive every way out of Init. *)
THEOREM PropagatorsStay == Spec => []Propagates
<1>1. IInv => Propagates  BY DEF IInv, PlaceInv, Propagates
<1> QED
  BY Invariance, <1>1, PTL

(* init.go:82-89, 122-130, tracing.go:87-102, metrics.go:126-140: an Init   *)
(* that fails, wherever it does, leaves the global providers, the pipelines *)
(* that run and the Shutdowns held as it found them.                       *)
THEOREM FailuresAreLocal == Spec => []FailureLeavesNoTrace
<1>1. ASSUME IInv PROVE FailureLeavesNoTrace
  <2> SUFFICES ASSUME program = "running", pc = "out", returned = "error" PROVE Found = before
    BY DEF FailureLeavesNoTrace
  <2>1. /\ global = before.global /\ deferred = before.held
        /\ before.live = {p \in Pipelines : Live(p)}
        /\ before = [global |-> before.global, live |-> before.live, held |-> before.held]
    BY <1>1 DEF IInv, TraceInv
  <2> QED
    BY <2>1 DEF Found
<1> QED
  BY Invariance, <1>1, PTL
=============================================================================
