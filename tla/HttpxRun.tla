------------------------------ MODULE HttpxRun ------------------------------
(***************************************************************************)
(* httpx.Run (src/httpx/httpx.go): the caller's goroutine, the goroutine   *)
(* it starts for ListenAndServe, the channel between them, the caller's    *)
(* context and the shutdown context.  net/http is not under src/; of       *)
(* http.Server only what Run depends on is kept: the shutdown flag, one    *)
(* listener, the connections, and the polling loop of Server.Shutdown.     *)
(* A connection exists from its first request on.                          *)
(***************************************************************************)
EXTENDS Integers

CONSTANTS
    Conns,                   \* connections clients may open
    Timeouts,                \* values the caller may pass as shutdownTimeout
    DefaultShutdownTimeout,  \* httpx.DefaultShutdownTimeout
    MaxRuns,                 \* bound: calls of Run, one after the other, on one server
    OwnerMayShutdown         \* whether the server's owner may call srv.Shutdown too

ASSUME TimeoutsAssumption == Timeouts \subseteq Int
ASSUME DefaultAssumption == DefaultShutdownTimeout \in Nat \ {0}
ASSUME MaxRunsAssumption == MaxRuns \in Nat
ASSUME OwnerAssumption == OwnerMayShutdown \in BOOLEAN

VARIABLES
    pc,          \* where the caller's goroutine is
    arg,         \* the shutdownTimeout it was given
    ctxDone,     \* its ctx is cancelled
    shutdownErr, \* what srv.Shutdown returned: "none" until it has
    result,      \* what Run returned: "none" until it has
    runs,        \* calls of Run so far
    gpc,         \* where the ListenAndServe goroutine is
    gerr,        \* what ListenAndServe returned
    serverErr,   \* the channel of capacity one: its value, or "none" when empty
    inShutdown,  \* http.Server: the shutdown flag, never reset
    listener,    \* http.Server: the listening socket
    conns,       \* http.Server: the state of each connection
    deadline     \* shutdownCtx: "off" (absent or released), "armed" or "fired"

caller  == <<arg, runs>>
routine == <<gpc, gerr>>
srv     == <<inShutdown, listener, conns>>
vars    == <<pc, ctxDone, shutdownErr, result, caller, routine, serverErr, srv, deadline>>

(* The errors keep only where they come from: "bind" and "accept" are net  *)
(* errors, "closed" is http.ErrServerClosed, "shutdown" is Run's wrapping. *)
TypeOK ==
    /\ pc \in {"init", "select", "close", "listeners", "poll", "wait", "recv", "done"}
    /\ arg \in Int
    /\ ctxDone \in BOOLEAN
    /\ shutdownErr \in {"none", "nil", "deadline"}
    /\ result \in {"none", "nil", "bind", "accept", "shutdown"}
    /\ runs \in 0..MaxRuns
    /\ gpc \in {"none", "start", "bound", "accept", "returned"}
    /\ gerr \in {"nil", "bind", "accept", "closed"}
    /\ serverErr \in {"none", "nil", "bind", "accept"}
    /\ inShutdown \in BOOLEAN
    /\ listener \in {"none", "open", "closed"}
    /\ conns \in [Conns -> {"none", "active", "idle"}]
    /\ deadline \in {"off", "armed", "fired"}

Init ==
    /\ pc = "init" /\ arg = 0 /\ ctxDone = FALSE
    /\ shutdownErr = "none" /\ result = "none" /\ runs = 0
    /\ gpc = "none" /\ gerr = "nil" /\ serverErr = "none"
    /\ inShutdown = FALSE /\ listener = "none"
    /\ conns = [c \in Conns |-> "none"]
    /\ deadline = "off"

ShuttingDown == pc \in {"close", "listeners", "poll", "wait", "recv"}
Live == {c \in Conns : conns[c] # "none"}
Quiescent == \A c \in Conns : conns[c] # "active"

-----------------------------------------------------------------------------
(* Plausible bugs of the definitions below.                                *)

\* The zero timeout is passed on instead of being replaced.
EffectiveTimeoutBug(d) == d

\* ErrServerClosed is not filtered out before the send.
SendUnfiltered ==
    /\ gpc = "returned" /\ serverErr = "none"
    /\ serverErr' = gerr
    /\ gpc' = "none"
    /\ UNCHANGED <<pc, ctxDone, shutdownErr, result, caller, gerr, srv, deadline>>

\* Only errors are sent: a nil result of ListenAndServe is dropped.
SendErrorsOnly ==
    /\ gpc = "returned" /\ serverErr = "none"
    /\ serverErr' = IF gerr = "closed" THEN "none" ELSE gerr
    /\ gpc' = "none"
    /\ UNCHANGED <<pc, ctxDone, shutdownErr, result, caller, gerr, srv, deadline>>

\* The error of Shutdown is ignored.
RecvIgnoresShutdownErr ==
    /\ pc = "recv" /\ serverErr # "none"
    /\ serverErr' = "none"
    /\ result' = serverErr
    /\ pc' = "done"
    /\ deadline' = "off"
    /\ UNCHANGED <<ctxDone, shutdownErr, caller, routine, srv>>

\* The error of ListenAndServe is received and dropped.
RecvDropsStartErr ==
    /\ pc = "recv" /\ serverErr # "none"
    /\ serverErr' = "none"
    /\ result' = IF shutdownErr = "nil" THEN "nil" ELSE "shutdown"
    /\ pc' = "done"
    /\ deadline' = "off"
    /\ UNCHANGED <<ctxDone, shutdownErr, caller, routine, srv>>

\* A failed Shutdown returns at once, the goroutine is not waited for.
RecvOnlyAfterSuccess ==
    /\ pc = "recv"
    /\ serverErr # "none" \/ shutdownErr = "deadline"
    /\ serverErr' = "none"
    /\ result' = IF shutdownErr = "deadline" THEN "shutdown" ELSE serverErr
    /\ pc' = "done"
    /\ deadline' = "off"
    /\ UNCHANGED <<ctxDone, shutdownErr, caller, routine, srv>>

\* Shutdown is given context.Background(): no deadline at all.
SelectCtxNoDeadline ==
    /\ pc = "select" /\ ctxDone
    /\ pc' = "close"
    /\ deadline' = "off"
    /\ UNCHANGED <<ctxDone, shutdownErr, result, caller, routine, serverErr, srv>>

\* Run returns on the cancel without calling Shutdown.
SelectCtxNoShutdown ==
    /\ pc = "select" /\ ctxDone
    /\ pc' = "recv"
    /\ shutdownErr' = "nil"
    /\ deadline' = "armed"
    /\ UNCHANGED <<ctxDone, result, caller, routine, serverErr, srv>>

-----------------------------------------------------------------------------
(* The caller's goroutine.                                                 *)

EffectiveTimeout(d) == IF d = 0 THEN DefaultShutdownTimeout ELSE d

\* Entry: a fresh channel and goroutine; ctx may be cancelled already.
Run(d, cancelled) ==
    /\ pc \in {"init", "done"} /\ runs < MaxRuns
    /\ pc' = "select"
    /\ arg' = d
    /\ ctxDone' = cancelled
    /\ runs' = runs + 1
    /\ shutdownErr' = "none" /\ result' = "none"
    /\ gpc' = "start" /\ gerr' = "nil" /\ serverErr' = "none"
    /\ UNCHANGED <<srv, deadline>>

Cancel ==
    /\ pc # "init" /\ ~ctxDone
    /\ ctxDone' = TRUE
    /\ UNCHANGED <<pc, shutdownErr, result, caller, routine, serverErr, srv, deadline>>

\* The select takes either branch when both are ready.
SelectServer ==
    /\ pc = "select" /\ serverErr # "none"
    /\ result' = serverErr
    /\ serverErr' = "none"
    /\ pc' = "done"
    /\ UNCHANGED <<ctxDone, shutdownErr, caller, routine, srv, deadline>>

\* A context made with no time left has expired when it is made.
SelectCtx ==
    /\ pc = "select" /\ ctxDone
    /\ pc' = "close"
    /\ deadline' = IF EffectiveTimeout(arg) <= 0 THEN "fired" ELSE "armed"
    /\ UNCHANGED <<ctxDone, shutdownErr, result, caller, routine, serverErr, srv>>

\* The channel is received from first; then the deferred cancel runs.
Recv ==
    /\ pc = "recv" /\ serverErr # "none"
    /\ serverErr' = "none"
    /\ result' = IF shutdownErr # "nil" THEN "shutdown" ELSE serverErr
    /\ pc' = "done"
    /\ deadline' = "off"
    /\ UNCHANGED <<ctxDone, shutdownErr, caller, routine, srv>>

-----------------------------------------------------------------------------
(* srv.Shutdown, called by Run.  Setting the flag and closing the listener *)
(* are one step: trackListener reads the flag under the mutex that guards  *)
(* the listeners.                                                          *)

CloseListener == listener' = IF listener = "open" THEN "closed" ELSE listener

ShutdownClose ==
    /\ pc = "close"
    /\ inShutdown' = TRUE
    /\ CloseListener
    /\ pc' = "listeners"
    /\ UNCHANGED <<ctxDone, shutdownErr, result, caller, routine, serverErr, conns, deadline>>

\* Shutdown waits for Serve to untrack the listener before it polls.
ListenersGone ==
    /\ pc = "listeners" /\ gpc # "accept"
    /\ pc' = "poll"
    /\ UNCHANGED <<ctxDone, shutdownErr, result, caller, routine, serverErr, srv, deadline>>

\* Close what is idle; done if nothing is left.  The deadline is looked at
\* only after a poll: a server at rest shuts down cleanly even with an
\* expired context.
Poll ==
    /\ pc = "poll"
    /\ conns' = [c \in Conns |-> IF conns[c] = "idle" THEN "none" ELSE conns[c]]
    /\ pc' = IF Quiescent THEN "recv" ELSE "wait"
    /\ shutdownErr' = IF Quiescent THEN "nil" ELSE shutdownErr
    /\ UNCHANGED <<ctxDone, result, caller, routine, serverErr, inShutdown, listener, deadline>>

PollTick ==
    /\ pc = "wait"
    /\ pc' = "poll"
    /\ UNCHANGED <<ctxDone, shutdownErr, result, caller, routine, serverErr, srv, deadline>>

ShutdownDeadline ==
    /\ pc = "wait" /\ deadline = "fired"
    /\ shutdownErr' = "deadline"
    /\ pc' = "recv"
    /\ UNCHANGED <<ctxDone, result, caller, routine, serverErr, srv, deadline>>

DeadlineFire ==
    /\ deadline = "armed"
    /\ deadline' = "fired"
    /\ UNCHANGED <<pc, ctxDone, shutdownErr, result, caller, routine, serverErr, srv>>

-----------------------------------------------------------------------------
(* The goroutine: ListenAndServe, then the filter and the send.            *)

ServeReturns(err) == gpc' = "returned" /\ gerr' = err

\* ListenAndServe looks at the flag, then binds.
Listen ==
    /\ gpc = "start"
    /\ \/ inShutdown /\ ServeReturns("closed")
       \/ ~inShutdown /\ ServeReturns("bind")
       \/ ~inShutdown /\ gpc' = "bound" /\ UNCHANGED gerr
    /\ UNCHANGED <<pc, ctxDone, shutdownErr, result, caller, serverErr, srv, deadline>>

\* Serve registers the listener unless a shutdown came in between; then it
\* closes the socket it has just bound.
Track ==
    /\ gpc = "bound"
    /\ \/ inShutdown /\ ServeReturns("closed") /\ UNCHANGED listener
       \/ ~inShutdown /\ listener' = "open" /\ gpc' = "accept" /\ UNCHANGED gerr
    /\ UNCHANGED <<pc, ctxDone, shutdownErr, result, caller, serverErr, inShutdown, conns, deadline>>

Accept(c) ==
    /\ gpc = "accept" /\ listener = "open" /\ conns[c] = "none"
    /\ conns' = [conns EXCEPT ![c] = "active"]
    /\ UNCHANGED <<pc, ctxDone, shutdownErr, result, caller, routine, serverErr, inShutdown, listener, deadline>>

\* Accept fails because the listener is closed.
AcceptClosed ==
    /\ gpc = "accept" /\ listener = "closed"
    /\ ServeReturns("closed")
    /\ UNCHANGED <<pc, ctxDone, shutdownErr, result, caller, serverErr, srv, deadline>>

\* Accept fails for another reason while the server is in service.
AcceptFatal ==
    /\ gpc = "accept" /\ listener = "open"
    /\ ServeReturns("accept")
    /\ listener' = "closed"
    /\ UNCHANGED <<pc, ctxDone, shutdownErr, result, caller, serverErr, inShutdown, conns, deadline>>

FilterClosed(err) == IF err = "closed" THEN "nil" ELSE err

\* The send never blocks a goroutine whose caller has left: there is room.
Send ==
    /\ gpc = "returned" /\ serverErr = "none"
    /\ serverErr' = FilterClosed(gerr)
    /\ gpc' = "none"
    /\ UNCHANGED <<pc, ctxDone, shutdownErr, result, caller, gerr, srv, deadline>>

-----------------------------------------------------------------------------
(* Clients, handlers, and an owner who shuts the server down by himself.   *)

SetConn(c, state) ==
    /\ conns' = [conns EXCEPT ![c] = state]
    /\ UNCHANGED <<pc, ctxDone, shutdownErr, result, caller, routine, serverErr, inShutdown, listener, deadline>>

\* The handler returns; keep-alives are off once the server shuts down.
HandlerDone(c) ==
    /\ conns[c] = "active"
    /\ \/ ~inShutdown /\ SetConn(c, "idle")
       \/ SetConn(c, "none")

\* A request on a kept connection, also one that beat the shutdown's poll.
NextRequest(c) == conns[c] = "idle" /\ SetConn(c, "active")

ClientCloses(c) == conns[c] = "idle" /\ SetConn(c, "none")

OwnerShutdown ==
    /\ OwnerMayShutdown /\ ~inShutdown
    /\ inShutdown' = TRUE
    /\ CloseListener
    /\ UNCHANGED <<pc, ctxDone, shutdownErr, result, caller, routine, serverErr, conns, deadline>>

-----------------------------------------------------------------------------
Next ==
    \/ \E d \in Timeouts, cancelled \in BOOLEAN : Run(d, cancelled)
    \/ Cancel
    \/ SelectServer \/ SelectCtx \/ Recv
    \/ ShutdownClose \/ ListenersGone \/ Poll \/ PollTick \/ ShutdownDeadline
    \/ DeadlineFire
    \/ Listen \/ Track \/ AcceptClosed \/ AcceptFatal \/ Send
    \/ \E c \in Conns : Accept(c) \/ HandlerDone(c) \/ NextRequest(c) \/ ClientCloses(c)
    \/ OwnerShutdown

(* Both goroutines are scheduled and time passes.  Nothing is assumed of   *)
(* the caller's cancel, of clients, or of handlers, which may never end.   *)
(* The wait in Shutdown is a select on a ticker and on the deadline: an    *)
(* expired deadline is ready at every turn and cannot be passed over for   *)
(* ever.                                                                   *)
Fairness ==
    /\ WF_vars(SelectServer \/ SelectCtx)
    /\ WF_vars(Recv)
    /\ WF_vars(ShutdownClose)
    /\ WF_vars(ListenersGone)
    /\ WF_vars(Poll)
    /\ WF_vars(PollTick)
    /\ SF_vars(ShutdownDeadline)
    /\ WF_vars(DeadlineFire)
    /\ WF_vars(Listen)
    /\ WF_vars(Track)
    /\ WF_vars(AcceptClosed)
    /\ WF_vars(Send)

Spec == Init /\ [][Next]_vars /\ Fairness

-----------------------------------------------------------------------------
(* Properties.                                                             *)

\* A nil result after a cancel means that every request was answered and
\* every connection is gone: Run never reports a shutdown that cut a
\* request short as clean (httpx.go:52-58).
CleanShutdownIsDrained ==
    pc = "done" /\ shutdownErr # "none" /\ result = "nil" => Live = {}

\* A failed bind or a failed accept reaches the caller as an error, also when
\* a cancel arrived first and Run took the shutdown branch (httpx.go:55-59).
FailureSurfaces ==
    pc = "done" /\ gerr \in {"bind", "accept"} => result \in {gerr, "shutdown"}

\* When Run has returned, its goroutine has ended, its socket is not bound,
\* nothing sits in the channel and no timer of its runs, whichever branch and
\* error it left by; this is what line 55 waits for.
NothingLeftBehind ==
    pc = "done" =>
        /\ gpc = "none" /\ listener # "open"
        /\ serverErr = "none"
        /\ deadline = "off"

\* Only a negative timeout gives Shutdown a context that has already
\* expired: a zero timeout, or a caller's ctx that is done, never does
\* (httpx.go:29-31, 48-50).
OnlyNegativeTimeoutSkipsGrace ==
    [][deadline = "off" /\ deadline' = "fired" => arg < 0]_vars

\* Once its context is cancelled, Run returns: handlers that never end cannot
\* hold it beyond the shutdown timeout (httpx.go:50-60).
CancelledRunReturns == pc = "select" /\ ctxDone ~> pc = "done"

\* Once ListenAndServe has returned, for whatever reason, Run returns; a
\* select that lost the race does not strand it (httpx.go:39, 43-46, 55).
ServeReturnEndsRun == gpc = "returned" ~> pc = "done"

\* The states in which the docs speak of serving and of stopping.
phase ==
    IF pc \in {"init", "done"} THEN "idle" ELSE IF pc = "select" THEN "serving" ELSE "stopping"

Contract == INSTANCE GracefulServe WITH
    closed <- inShutdown, live <- Live, outcome <- result

\* Run implements GracefulServe: what it returns never hides a connection, a
\* client's request is never accepted after it has returned, and a cancelled
\* call ends (httpx.go:17-23).
ImplementsContract == Contract!Spec

\* What the doc comment says of nil, read as it stands: a caller who sees nil
\* has cancelled the context (httpx.go:22-23).  A server used twice breaks it.
NilMeansGracefulShutdown == pc = "done" /\ result = "nil" => ctxDone

(* The inductive strengthening: what the two goroutines know of each other. *)
RoutineInv ==
    /\ pc \in {"init", "done"} => gpc = "none" /\ serverErr = "none"
    /\ pc \notin {"init", "done"} =>
          (gpc = "none" <=> serverErr # "none")
    /\ gpc = "returned" => gerr # "nil"
    /\ serverErr # "none" => gerr # "nil" /\ serverErr = FilterClosed(gerr)

ListenerInv ==
    /\ listener = "open" => gpc = "accept"
    /\ gpc = "accept" => listener = "open" \/ inShutdown
    /\ inShutdown => listener # "open"
    /\ pc \in {"listeners", "poll", "wait", "recv"} => inShutdown
    /\ pc \in {"poll", "wait", "recv"} => gpc # "accept"
    /\ gerr = "closed" => inShutdown
    /\ gpc \in {"start", "bound", "accept"} => gerr = "nil"

DrainInv ==
    /\ pc = "recv" <=> shutdownErr # "none" /\ pc # "done"
    /\ shutdownErr = "nil" => inShutdown /\ gpc # "accept" /\ Live = {}
    /\ deadline # "off" => ShuttingDown

ResultInv ==
    /\ pc = "done" => result = IF shutdownErr = "deadline" THEN "shutdown" ELSE FilterClosed(gerr)
    /\ shutdownErr = "deadline" => inShutdown

IInv == TypeOK /\ RoutineInv /\ ListenerInv /\ DrainInv /\ ResultInv
=============================================================================
