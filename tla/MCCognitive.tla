---------------------------- MODULE MCCognitive ----------------------------
(* Instances of the cognitive execution for TLC. *)
EXTENDS CognitiveExecution

CONSTANTS u1, u2

TwoURIs == <<u1, u2>>

\* Of 2 bytes each: two narrow letters, and a wide one.
TwoTerms == {<<"a", "a">>, <<"w", ".">>}
=============================================================================
