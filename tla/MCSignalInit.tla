---------------------------- MODULE MCSignalInit ----------------------------
(* Up to three pipelines, of the same or of different signals, under every  *)
(* combination of environment variables.                                    *)
EXTENDS SignalInit
=============================================================================
