---------------------------- MODULE MCInitTests ----------------------------
(***************************************************************************)
(* Three threads: one producer of two items for two consumers over a       *)
(* buffer of one, two rounds of the barrier and of the mutex.  init and    *)
(* the three children that the tests of processes need at most.            *)
(***************************************************************************)
EXTENDS InitTests
=============================================================================
