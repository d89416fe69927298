--------------------------- MODULE GracefulServe ---------------------------
(***************************************************************************)
(* What a caller of httpx.Run may rely on, with no channel, goroutine,     *)
(* listener or timer in sight.  The doc comment (src/httpx/httpx.go:17-23) *)
(* promises that Run blocks until the context is cancelled or the server   *)
(* returns, shuts the server down on a cancel, and reports nil for a clean *)
(* shutdown.  Here "clean" is spelt out: nil after a cancel leaves no      *)
(* connection behind.  Nil without one says that the server was shut down, *)
(* and an error may leave connections too; but once Run has returned,      *)
(* whatever it returned, none comes any more.                              *)
(***************************************************************************)
CONSTANT Conns

VARIABLES
    phase,      \* "idle": no call of Run; "serving"; "stopping": cancel seen
    closed,     \* the server has been shut down, for good
    live,       \* the connections the server holds
    outcome     \* what the last call of Run returned

vars == <<phase, closed, live, outcome>>

Outcomes == {"nil", "bind", "accept", "shutdown"}

Init ==
    /\ phase = "idle"
    /\ closed = FALSE
    /\ live = {}
    /\ outcome = "none"

Start ==
    /\ phase = "idle"
    /\ phase' = "serving"
    /\ outcome' = "none"
    /\ UNCHANGED <<closed, live>>

\* The cancelled context has been noticed.
Stop ==
    /\ phase = "serving"
    /\ phase' = "stopping"
    /\ UNCHANGED <<closed, live, outcome>>

\* The server stops accepting, and never accepts again.
Close ==
    /\ ~closed
    /\ closed' = TRUE
    /\ UNCHANGED <<phase, live, outcome>>

\* Only a call of Run that has not returned serves new connections.
Arrive(c) ==
    /\ phase # "idle"
    /\ ~closed
    /\ live' = live \cup {c}
    /\ UNCHANGED <<phase, closed, outcome>>

Depart(gone) ==
    /\ live' = live \ gone
    /\ UNCHANGED <<phase, closed, outcome>>

\* A nil result needs a closed server, and after a cancel an empty one too.
Return(o) ==
    /\ phase # "idle"
    /\ o = "nil" => closed
    /\ o = "nil" /\ phase = "stopping" => live = {}
    /\ o = "shutdown" => closed /\ phase = "stopping"
    /\ phase' = "idle"
    /\ outcome' = o
    /\ UNCHANGED <<closed, live>>

ReturnStopped == phase = "stopping" /\ \E o \in Outcomes : Return(o)

Next ==
    \/ Start
    \/ Stop
    \/ Close
    \/ \E c \in Conns : Arrive(c)
    \/ \E gone \in SUBSET Conns : Depart(gone)
    \/ \E o \in Outcomes : Return(o)

Safe == Init /\ [][Next]_vars

Spec == Safe /\ WF_vars(ReturnStopped)
=============================================================================
