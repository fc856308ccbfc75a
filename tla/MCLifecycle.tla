---------------------------- MODULE MCLifecycle ----------------------------
(* Constants of the TLC instance of Lifecycle.                             *)
EXTENDS Lifecycle

CONSTANTS h1, h2
=============================================================================
