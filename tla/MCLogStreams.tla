------------------------------ MODULE MCLogStreams ------------------------------
(* LogStreams with two browsers.  No symmetry: the run checks liveness.          *)
EXTENDS LogStreams
================================================================================
