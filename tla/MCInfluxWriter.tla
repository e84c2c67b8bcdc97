--------------------------- MODULE MCInfluxWriter ---------------------------
(***************************************************************************)
(* InfluxWriter for TLC.  The bounds are constants of the specification:   *)
(* MaxLines on what is produced, MaxClock on file names and restarts.      *)
(***************************************************************************)
EXTENDS InfluxWriter
=============================================================================
