---------------------------- MODULE MCController ----------------------------
(* Values of the constants of Controller for TLC.                          *)
EXTENDS Controller

\* No two refs differ in a leading "v" only.
Distinct == [r \in Refs |-> r]

AllCalls == Calls
=============================================================================
