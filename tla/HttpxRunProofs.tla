--------------------------- MODULE HttpxRunProofs ---------------------------
(***************************************************************************)
(* What holds of httpx.Run for any number of connections, any timeouts and *)
(* any number of calls: the inductive invariant IInv of HttpxRun, the      *)
(* safety invariants that follow from it, and the safety part of the       *)
(* refinement of GracefulServe.                                            *)
(***************************************************************************)
EXTENDS HttpxRun, TLAPS

(* The initial state satisfies every part of the invariant. *)
LEMMA InitIInv == Init => IInv
<1> SUFFICES ASSUME Init PROVE IInv
  OBVIOUS
<1>1. TypeOK
  <2>1. runs \in 0..MaxRuns  BY MaxRunsAssumption DEF Init
  <2>2. conns \in [Conns -> {"none", "active", "idle"}]  BY DEF Init
  <2>3. ctxDone \in BOOLEAN /\ inShutdown \in BOOLEAN  BY Zenon DEF Init
  <2>4. arg \in Int  BY DEF Init
  <2> QED
    BY <2>1, <2>2, <2>3, <2>4, Zenon DEF Init, TypeOK
<1>2. RoutineInv  BY DEF Init, RoutineInv
<1>3. ListenerInv  BY DEF Init, ListenerInv
<1>4. DrainInv  BY DEF Init, DrainInv, ShuttingDown
<1>5. ResultInv  BY DEF Init, ResultInv
<1> QED
  BY <1>1, <1>2, <1>3, <1>4, <1>5 DEF IInv

(* A step that changes no variable keeps the invariant. *)
LEMMA StutterIInv == ASSUME IInv, UNCHANGED vars PROVE IInv'
  BY DEF vars, caller, routine, srv, IInv, TypeOK, RoutineInv, ListenerInv, DrainInv,
         ResultInv, ShuttingDown, Live, FilterClosed

(* Every step of the caller, of the goroutine, of net/http and of the      *)
(* clients keeps the types of the variables: the result and the channel    *)
(* never hold http.ErrServerClosed (httpx.go:36-38).                       *)
LEMMA NextTypeOK == ASSUME IInv, Next PROVE TypeOK'
<1> USE DEF IInv, TypeOK, caller, routine, srv
<1>1. ASSUME NEW d \in Timeouts, NEW b \in BOOLEAN, Run(d, b) PROVE TypeOK'
  BY <1>1, TimeoutsAssumption, MaxRunsAssumption DEF Run
<1>2. CASE Cancel  BY <1>2 DEF Cancel
<1>3. CASE SelectServer  BY <1>3 DEF SelectServer
<1>4. CASE SelectCtx  BY <1>4 DEF SelectCtx
<1>5. CASE Recv  BY <1>5 DEF Recv
<1>6. CASE ShutdownClose  BY <1>6 DEF ShutdownClose, CloseListener
<1>7. CASE ListenersGone  BY <1>7 DEF ListenersGone
<1>8. CASE Poll  BY <1>8 DEF Poll
<1>9. CASE PollTick  BY <1>9 DEF PollTick
<1>10. CASE ShutdownDeadline  BY <1>10 DEF ShutdownDeadline
<1>11. CASE DeadlineFire  BY <1>11 DEF DeadlineFire
<1>12. CASE Listen  BY <1>12 DEF Listen, ServeReturns
<1>13. CASE Track  BY <1>13 DEF Track, ServeReturns
<1>14. CASE AcceptClosed  BY <1>14 DEF AcceptClosed, ServeReturns
<1>15. CASE AcceptFatal  BY <1>15 DEF AcceptFatal, ServeReturns
<1>16. CASE Send  BY <1>16 DEF Send, FilterClosed
<1>17. ASSUME NEW c \in Conns, Accept(c) \/ HandlerDone(c) \/ NextRequest(c) \/ ClientCloses(c)
       PROVE  TypeOK'
  BY <1>17 DEF Accept, HandlerDone, NextRequest, ClientCloses, SetConn
<1>18. CASE OwnerShutdown  BY <1>18 DEF OwnerShutdown, CloseListener
<1> QED
  BY <1>1, <1>2, <1>3, <1>4, <1>5, <1>6, <1>7, <1>8, <1>9, <1>10, <1>11, <1>12, <1>13,
     <1>14, <1>15, <1>16, <1>17, <1>18 DEF Next

(* The connections of a server only leave it once it is shut down. *)
LEMMA LiveShrinks ==
  ASSUME IInv, Next, inShutdown PROVE Live' \subseteq Live
<1> SUFFICES ASSUME NEW k \in Conns, conns'[k] # "none" PROVE conns[k] # "none"
  BY DEF Live
<1> USE DEF IInv, TypeOK, ListenerInv, srv
<1>1. CASE \E d \in Timeouts, b \in BOOLEAN : Run(d, b)  BY <1>1 DEF Run
<1>2. CASE Cancel \/ SelectServer \/ SelectCtx \/ Recv
  BY <1>2 DEF Cancel, SelectServer, SelectCtx, Recv
<1>3. CASE ShutdownClose \/ ListenersGone \/ PollTick \/ ShutdownDeadline \/ DeadlineFire
  BY <1>3 DEF ShutdownClose, ListenersGone, PollTick, ShutdownDeadline, DeadlineFire
<1>4. CASE Poll  BY <1>4 DEF Poll
<1>5. CASE Listen \/ Track \/ AcceptClosed \/ AcceptFatal \/ Send
  BY <1>5 DEF Listen, Track, AcceptClosed, AcceptFatal, Send
<1>6. ASSUME NEW c \in Conns, Accept(c) PROVE FALSE
  BY <1>6 DEF Accept
<1>7. ASSUME NEW c \in Conns, HandlerDone(c) \/ NextRequest(c) \/ ClientCloses(c)
      PROVE  conns[k] # "none"
  BY <1>7 DEF HandlerDone, NextRequest, ClientCloses, SetConn
<1>8. CASE OwnerShutdown  BY <1>8 DEF OwnerShutdown
<1> QED
  BY <1>1, <1>2, <1>3, <1>4, <1>5, <1>6, <1>7, <1>8 DEF Next

(* The goroutine and the channel: the goroutine is gone exactly when its   *)
(* value is in the channel, and both are spent when Run has returned.      *)
LEMMA NextRoutineInv == ASSUME IInv, Next PROVE RoutineInv'
<1> USE DEF IInv, TypeOK, RoutineInv, caller, routine, srv
<1>1. CASE \E d \in Timeouts, b \in BOOLEAN : Run(d, b)  BY <1>1 DEF Run, FilterClosed
<1>2. CASE Cancel  BY <1>2 DEF Cancel, FilterClosed
<1>3. CASE SelectServer \/ SelectCtx  BY <1>3 DEF SelectServer, SelectCtx, FilterClosed
<1>4. CASE Recv  BY <1>4 DEF Recv, FilterClosed
<1>5. CASE ShutdownClose \/ ListenersGone \/ Poll \/ PollTick \/ ShutdownDeadline \/ DeadlineFire
  BY <1>5 DEF ShutdownClose, ListenersGone, Poll, PollTick, ShutdownDeadline, DeadlineFire,
              FilterClosed
<1>6. CASE Listen \/ Track
  BY <1>6 DEF Listen, Track, ServeReturns, FilterClosed
<1>7. CASE AcceptClosed \/ AcceptFatal
  BY <1>7 DEF AcceptClosed, AcceptFatal, ServeReturns, FilterClosed
<1>8. CASE Send  BY <1>8 DEF Send, FilterClosed
<1>9. CASE OwnerShutdown \/ \E c \in Conns :
             Accept(c) \/ HandlerDone(c) \/ NextRequest(c) \/ ClientCloses(c)
  BY <1>9 DEF OwnerShutdown, Accept, HandlerDone, NextRequest, ClientCloses, SetConn,
              FilterClosed
<1> QED
  BY <1>1, <1>2, <1>3, <1>4, <1>5, <1>6, <1>7, <1>8, <1>9 DEF Next

(* The listener and the shutdown flag: a listener is open only while Serve *)
(* accepts, and never once the server is shutting down.                    *)
LEMMA NextListenerInv == ASSUME IInv, Next PROVE ListenerInv'
<1> USE DEF IInv, TypeOK, ListenerInv, caller, routine, srv
<1>1. CASE \E d \in Timeouts, b \in BOOLEAN : Run(d, b)
  BY <1>1 DEF Run, RoutineInv
<1>2. CASE Cancel \/ SelectServer \/ SelectCtx \/ Recv
  BY <1>2 DEF Cancel, SelectServer, SelectCtx, Recv
<1>3. CASE ShutdownClose  BY <1>3 DEF ShutdownClose, CloseListener
<1>4. CASE ListenersGone \/ Poll \/ PollTick \/ ShutdownDeadline \/ DeadlineFire
  BY <1>4 DEF ListenersGone, Poll, PollTick, ShutdownDeadline, DeadlineFire
<1>5. CASE Listen  BY <1>5 DEF Listen, ServeReturns
<1>6. CASE Track  BY <1>6 DEF Track, ServeReturns
<1>7. CASE AcceptClosed \/ AcceptFatal \/ Send
  BY <1>7 DEF AcceptClosed, AcceptFatal, ServeReturns, Send
<1>8. CASE \E c \in Conns : Accept(c) \/ HandlerDone(c) \/ NextRequest(c) \/ ClientCloses(c)
  BY <1>8 DEF Accept, HandlerDone, NextRequest, ClientCloses, SetConn
<1>9. CASE OwnerShutdown  BY <1>9 DEF OwnerShutdown, CloseListener
<1> QED
  BY <1>1, <1>2, <1>3, <1>4, <1>5, <1>6, <1>7, <1>8, <1>9 DEF Next

(* The drain: Shutdown reports nil only with no connection left, and none  *)
(* comes back; the shutdown timer exists only while Run is stopping.       *)
LEMMA NextDrainInv == ASSUME IInv, Next PROVE DrainInv'
<1> USE DEF IInv, TypeOK, DrainInv, ShuttingDown, caller, routine, srv
<1>1. CASE \E d \in Timeouts, b \in BOOLEAN : Run(d, b)
  BY <1>1 DEF Run, Live
<1>2. CASE Cancel \/ SelectServer \/ SelectCtx \/ Recv
  BY <1>2 DEF Cancel, SelectServer, SelectCtx, Recv, Live
<1>3. CASE ShutdownClose \/ ListenersGone \/ PollTick \/ ShutdownDeadline \/ DeadlineFire
  BY <1>3 DEF ShutdownClose, ListenersGone, PollTick, ShutdownDeadline, DeadlineFire, Live
<1>4. CASE Poll
  <2>1. shutdownErr = "none" /\ inShutdown /\ gpc # "accept"
    BY <1>4 DEF Poll, ListenerInv
  <2>2. CASE Quiescent
    <3>1. Live' = {}
      BY <1>4, <2>2 DEF Poll, Quiescent, Live
    <3> QED
      BY <1>4, <2>1, <2>2, <3>1 DEF Poll
  <2>3. CASE ~Quiescent
    BY <1>4, <2>1, <2>3 DEF Poll
  <2> QED
    BY <2>2, <2>3
<1>5. CASE Listen \/ Track \/ AcceptClosed \/ AcceptFatal \/ Send
  BY <1>5 DEF Listen, Track, AcceptClosed, AcceptFatal, Send, ServeReturns, Live
<1>6. ASSUME NEW c \in Conns, Accept(c) \/ HandlerDone(c) \/ NextRequest(c) \/ ClientCloses(c)
      PROVE  DrainInv'
  <2>1. UNCHANGED <<pc, shutdownErr, gpc, inShutdown, deadline>>
    BY <1>6 DEF Accept, HandlerDone, NextRequest, ClientCloses, SetConn
  <2>2. shutdownErr = "nil" => Live' \subseteq Live
    BY <1>6, LiveShrinks DEF Next
  <2> QED
    BY <2>1, <2>2
<1>7. CASE OwnerShutdown  BY <1>7 DEF OwnerShutdown, Live
<1> QED
  BY <1>1, <1>2, <1>3, <1>4, <1>5, <1>6, <1>7 DEF Next

(* The result: what Run returned is decided by what Shutdown and           *)
(* ListenAndServe returned, and by nothing else.                           *)
LEMMA NextResultInv == ASSUME IInv, Next PROVE ResultInv'
<1> USE DEF IInv, TypeOK, ResultInv, caller, routine, srv
<1>1. CASE \E d \in Timeouts, b \in BOOLEAN : Run(d, b)  BY <1>1 DEF Run
<1>2. CASE Cancel \/ SelectCtx  BY <1>2 DEF Cancel, SelectCtx
<1>3. CASE SelectServer  BY <1>3 DEF SelectServer, RoutineInv, DrainInv
<1>4. CASE Recv  BY <1>4 DEF Recv, RoutineInv, DrainInv
<1>5. CASE ShutdownClose \/ ListenersGone \/ Poll \/ PollTick \/ ShutdownDeadline \/ DeadlineFire
  BY <1>5 DEF ShutdownClose, ListenersGone, Poll, PollTick, ShutdownDeadline, DeadlineFire,
              ListenerInv
<1>6. CASE Listen \/ Track \/ AcceptClosed \/ AcceptFatal \/ Send
  BY <1>6 DEF Listen, Track, AcceptClosed, AcceptFatal, Send, ServeReturns, RoutineInv
<1>7. CASE OwnerShutdown \/ \E c \in Conns :
             Accept(c) \/ HandlerDone(c) \/ NextRequest(c) \/ ClientCloses(c)
  BY <1>7 DEF OwnerShutdown, Accept, HandlerDone, NextRequest, ClientCloses, SetConn
<1> QED
  BY <1>1, <1>2, <1>3, <1>4, <1>5, <1>6, <1>7 DEF Next

(* IInv holds in every state that httpx.Run and its server can reach. *)
THEOREM Invariance == Spec => []IInv
<1>1. IInv /\ [Next]_vars => IInv'
  <2> SUFFICES ASSUME IInv, [Next]_vars PROVE IInv'
    OBVIOUS
  <2>1. CASE Next
    BY <2>1, NextTypeOK, NextRoutineInv, NextListenerInv, NextDrainInv, NextResultInv DEF IInv
  <2>2. CASE UNCHANGED vars
    BY <2>2, StutterIInv
  <2> QED
    BY <2>1, <2>2
<1> QED
  BY InitIInv, <1>1, PTL DEF Spec

(* The types, for every instance: neither the channel nor the result ever  *)
(* holds http.ErrServerClosed.                                             *)
THEOREM TypeCorrect == Spec => []TypeOK
<1>1. IInv => TypeOK
  BY DEF IInv
<1> QED
  BY Invariance, <1>1, PTL

(* A nil result after a cancel means an empty server (httpx.go:52-59). *)
THEOREM CleanShutdown == Spec => []CleanShutdownIsDrained
<1>1. IInv => CleanShutdownIsDrained
  BY DEF IInv, TypeOK, DrainInv, ResultInv, CleanShutdownIsDrained
<1> QED
  BY Invariance, <1>1, PTL

(* A failed bind or accept is never reported as nil (httpx.go:43-46, 55-59). *)
THEOREM Failures == Spec => []FailureSurfaces
<1>1. IInv => FailureSurfaces
  BY DEF IInv, ResultInv, FailureSurfaces, FilterClosed
<1> QED
  BY Invariance, <1>1, PTL

(* Run leaves no goroutine, socket, channel value or timer (httpx.go:51, 55). *)
THEOREM NothingLeft == Spec => []NothingLeftBehind
<1>1. IInv => NothingLeftBehind
  BY DEF IInv, TypeOK, RoutineInv, ListenerInv, DrainInv, ShuttingDown, NothingLeftBehind
<1> QED
  BY Invariance, <1>1, PTL

(* Only a negative timeout reaches Shutdown expired (httpx.go:29-31, 48-50). *)
THEOREM GraceIsGiven == Spec => OnlyNegativeTimeoutSkipsGrace
<1>1. ASSUME IInv, [Next]_vars PROVE deadline = "off" /\ deadline' = "fired" => arg < 0
  <2> SUFFICES ASSUME deadline = "off", deadline' = "fired" PROVE arg < 0
    OBVIOUS
  <2>1. SelectCtx
    BY <1>1 DEF Next, vars, caller, routine, srv, Run, Cancel, SelectServer, Recv, ShutdownClose,
                ListenersGone, Poll, PollTick, ShutdownDeadline, DeadlineFire, Listen, Track,
                AcceptClosed, AcceptFatal, Send, Accept, HandlerDone, NextRequest, ClientCloses,
                SetConn, OwnerShutdown
  <2>2. EffectiveTimeout(arg) <= 0
    BY <2>1 DEF SelectCtx
  <2> QED
    BY <1>1, <2>2, DefaultAssumption DEF EffectiveTimeout, IInv, TypeOK
<1>2. ASSUME IInv, [Next]_vars PROVE [deadline = "off" /\ deadline' = "fired" => arg < 0]_vars
  BY <1>1, <1>2
<1> QED
  BY Invariance, <1>2, PTL DEF Spec, OnlyNegativeTimeoutSkipsGrace

(* Each step of httpx.Run is a step of GracefulServe or leaves it alone. *)
LEMMA StepRefines == ASSUME IInv, IInv', Next PROVE [Contract!Next]_Contract!vars
<1> USE DEF IInv, TypeOK, phase, caller, routine, srv, Contract!vars
<1>1. CASE \E d \in Timeouts, b \in BOOLEAN : Run(d, b)
  <2>1. Contract!Start
    BY <1>1 DEF Run, Contract!Start, Live
  <2> QED
    BY <2>1 DEF Contract!Next
<1>2. CASE SelectServer
  <2>1. inShutdown \/ serverErr # "nil"
    BY <1>2 DEF SelectServer, RoutineInv, ListenerInv, FilterClosed
  <2>2. Contract!Return(serverErr)
    BY <1>2, <2>1 DEF SelectServer, Contract!Return, Live
  <2>3. serverErr \in Contract!Outcomes
    BY <1>2 DEF SelectServer, Contract!Outcomes
  <2> QED
    BY <2>2, <2>3 DEF Contract!Next
<1>3. CASE SelectCtx
  <2>1. Contract!Stop
    BY <1>3 DEF SelectCtx, Contract!Stop, Live
  <2> QED
    BY <2>1 DEF Contract!Next
<1>4. CASE Recv
  <2>1. shutdownErr = "nil" => Live = {}
    BY DEF DrainInv
  <2>2. inShutdown
    BY <1>4 DEF Recv, ListenerInv
  <2>3. Contract!Return(result')
    BY <1>4, <2>1, <2>2 DEF Recv, Contract!Return, Live, DrainInv
  <2>4. result' \in Contract!Outcomes
    BY <1>4 DEF Recv, Contract!Outcomes
  <2> QED
    BY <2>3, <2>4 DEF Contract!Next
<1>5. CASE ShutdownClose \/ OwnerShutdown
  <2>1. UNCHANGED <<phase, Live, result>> /\ inShutdown'
    BY <1>5 DEF ShutdownClose, OwnerShutdown, Live
  <2>2. CASE inShutdown
    BY <2>1, <2>2
  <2>3. CASE ~inShutdown
    BY <2>1, <2>3 DEF Contract!Close, Contract!Next
  <2> QED
    BY <2>2, <2>3
<1>6. CASE Poll
  <2>1. Live' = Live \ {c \in Conns : conns[c] = "idle"}
    BY <1>6 DEF Poll, Live
  <2>2. UNCHANGED <<phase, inShutdown, result>>
    BY <1>6 DEF Poll
  <2>3. Contract!Depart({c \in Conns : conns[c] = "idle"})
    BY <2>1, <2>2 DEF Contract!Depart
  <2> QED
    BY <2>3 DEF Contract!Next
<1>7. ASSUME NEW c \in Conns, Accept(c) PROVE Contract!Next
  <2>1. Live' = Live \cup {c}
    BY <1>7 DEF Accept, Live
  <2>2. UNCHANGED <<phase, inShutdown, result>> /\ phase # "idle" /\ ~inShutdown
    BY <1>7 DEF Accept, RoutineInv, ListenerInv
  <2>3. Contract!Arrive(c)
    BY <2>1, <2>2 DEF Contract!Arrive
  <2> QED
    BY <2>3 DEF Contract!Next
<1>8. ASSUME NEW c \in Conns, HandlerDone(c) \/ NextRequest(c) \/ ClientCloses(c)
      PROVE  Contract!Next
  <2> DEFINE gone == IF conns'[c] = "none" THEN {c} ELSE {}
  <2>1. Live' = Live \ gone
    BY <1>8 DEF HandlerDone, NextRequest, ClientCloses, SetConn, Live
  <2>2. UNCHANGED <<phase, inShutdown, result>>
    BY <1>8 DEF HandlerDone, NextRequest, ClientCloses, SetConn
  <2>3. Contract!Depart(gone) /\ gone \in SUBSET Conns
    BY <2>1, <2>2 DEF Contract!Depart
  <2> HIDE DEF gone
  <2> QED
    BY <2>3 DEF Contract!Next
<1>9. CASE Cancel \/ ListenersGone \/ PollTick \/ ShutdownDeadline \/ DeadlineFire
  BY <1>9 DEF Cancel, ListenersGone, PollTick, ShutdownDeadline, DeadlineFire, Live
<1>10. CASE Listen \/ Track \/ AcceptClosed \/ AcceptFatal \/ Send
  BY <1>10 DEF Listen, Track, AcceptClosed, AcceptFatal, Send, ServeReturns, Live
<1> QED
  BY <1>1, <1>2, <1>3, <1>4, <1>5, <1>6, <1>7, <1>8, <1>9, <1>10 DEF Next

(* httpx.Run implements the safety part of GracefulServe, for every number *)
(* of connections, every timeout and every number of calls.                *)
THEOREM ContractHolds == Spec => Contract!Safe
<1>1. Init => Contract!Init
  BY DEF Init, Contract!Init, phase, Live
<1>2. ASSUME IInv, IInv', [Next]_vars PROVE [Contract!Next]_Contract!vars
  <2>1. CASE Next
    BY <1>2, <2>1, StepRefines
  <2>2. CASE UNCHANGED vars
    BY <2>2 DEF vars, srv, caller, routine, Contract!vars, phase, Live
  <2> QED
    BY <1>2, <2>1, <2>2
<1> QED
  BY <1>1, <1>2, Invariance, PTL DEF Spec, Contract!Safe
=============================================================================
