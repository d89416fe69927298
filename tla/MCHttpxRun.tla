----------------------------- MODULE MCHttpxRun -----------------------------
(* httpx.Run on a server with two clients, called twice in a row.           *)
EXTENDS HttpxRun

\* An expired timeout, the default, and one of the caller's.
MCTimeouts == {-1, 0, 2}
=============================================================================
