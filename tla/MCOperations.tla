---------------------------- MODULE MCOperations ----------------------------
(***************************************************************************)
(* A small instance of the operation store: a request that mutates the     *)
(* warehouse and one that does not, which is enough for a second operation *)
(* at the gate and for a key that meets a different request, and one key.  *)
(***************************************************************************)
EXTENDS Operations

CONSTANTS run, test, k1

RunAndTest == {run, test}
OnlyRun == {run}
OneKey == {k1}
=============================================================================
