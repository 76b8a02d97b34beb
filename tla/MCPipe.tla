------------------------------- MODULE MCPipe ------------------------------
(* Pipe for TLC: the initial process and one more actor, its child or its  *)
(* thread.                                                                 *)
EXTENDS Pipe, TLC

CONSTANTS a, b
=============================================================================
